---- MODULE Spec2Model ----
(***************************************************************************)
(* Mission workflow and settlement core of the ekko marketplace:           *)
(* the mission state machine (lib/state/mission), the role gate (lib/auth),*)
(* the accept / submit / verify / reject / payout / fund request handlers  *)
(* running concurrently against one relational store, and the payment      *)
(* processor they call.                                                    *)
(*                                                                         *)
(* Every request handler is an async function: between two awaited round   *)
(* trips (store query, processor call) other requests may run.  A request  *)
(* in flight is a record in the bag `reqs`; its `pc` names the next        *)
(* awaited call and its other fields are the handler's local variables.    *)
(***************************************************************************)
EXTENDS Integers, Sequences, FiniteSets, Bags, TLC

VARIABLES
    users,                \* table users, keyed by auth_user_id
    campaigns,            \* table campaigns, keyed by id
    missions,             \* table missions, keyed by id
    mission_submissions,  \* table mission_submissions, rows in insertion order
    intents,              \* processor: status of each campaign's PaymentIntent
    transfers,            \* processor: the transfers created, in order
    stripe_err,           \* processor: the error it answered to the call of the step
                          \* just taken (Null if it answered none)
    pg,                   \* the listed table, a client's traversal of it page by
                          \* page, and the last list request with its response
    reqs,                 \* bag of the requests in flight
    resp,                 \* the response sent by the step just taken (NoResp if none)
    fsm                   \* state of the transition-table driver (SpecFSM only)

vars == <<users, campaigns, missions, mission_submissions, intents, transfers,
          stripe_err, pg, reqs, resp, fsm>>

----------------------------------------------------------------------------
(* Bounds of the model *)

MaxReq == 2
MaxTransfers == 2
MaxClock == 4
MaxAttempts == 3
MaxRows == 3
MaxFetched == 6
MaxInserts == 1

----------------------------------------------------------------------------
(* lib/state/mission *)

Null == "null"

MissionState == {"OPEN", "ACCEPTED", "SUBMITTED", "VERIFIED", "PAID", "REJECTED"}

\* the table with the REJECTED destination left out
allowedTransitions_NoReject(from) ==
    CASE from = "OPEN"      -> {"ACCEPTED"}
      [] from = "ACCEPTED"  -> {"SUBMITTED"}
      [] from = "SUBMITTED" -> {"VERIFIED"}
      [] from = "VERIFIED"  -> {"PAID"}
      [] OTHER              -> {}

allowedTransitions(from) ==
    CASE from = "OPEN"      -> {"ACCEPTED"}
      [] from = "ACCEPTED"  -> {"SUBMITTED"}
      [] from = "SUBMITTED" -> {"VERIFIED", "REJECTED"}
      [] from = "VERIFIED"  -> {"PAID"}
      [] from = "PAID"      -> {}
      [] from = "REJECTED"  -> {}
      [] OTHER              -> {}

canTransition(from, to) ==
    IF from = to THEN FALSE ELSE to \in allowedTransitions(from)

\* "ok" when the call returns, "InvalidTransition" when it throws
assertTransition(from, to) ==
    IF ~canTransition(from, to) THEN "InvalidTransition" ELSE "ok"

----------------------------------------------------------------------------
(* lib/auth: bearer token -> auth user id -> users row with the required role *)

AuthIds == {"a1", "a2", "c1", "c2"}

\* bearer tokens a request may carry: one valid token per identity, one invalid
Tokens == AuthIds \cup {"bad"}

getAuthUserId(token) == IF token \in AuthIds THEN token ELSE Null

NoUser == [id |-> 0, role |-> Null, roles |-> << >>, stripe_account_id |-> Null]

\* variant: the lookup returns the account whatever its role and leaves the
\* comparison to requireRole
getAppUser_AnyRole(authUserId, requiredRole) ==
    IF authUserId \notin DOMAIN users THEN NoUser ELSE users[authUserId]

getAppUser(authUserId, requiredRole) ==
    IF authUserId \notin DOMAIN users THEN NoUser
    ELSE IF requiredRole # Null /\ users[authUserId].role # requiredRole THEN NoUser
    ELSE users[authUserId]

requireAuth(token) ==
    IF getAuthUserId(token) = Null THEN "UNAUTHORIZED" ELSE "ok"

\* "UNAUTHORIZED" / "FORBIDDEN" when it throws, "ok" when it returns
\* {authUserId: getAuthUserId(token), appUser: getAppUser(...)}
requireRole(token, requiredRole) ==
    IF requireAuth(token) # "ok" THEN "UNAUTHORIZED"
    ELSE IF getAppUser(getAuthUserId(token), requiredRole) = NoUser
            \/ getAppUser(getAuthUserId(token), requiredRole).role # requiredRole
         THEN "FORBIDDEN"
    ELSE "ok"

----------------------------------------------------------------------------
(* lib/db/schema: rows, and the values a request may carry *)

FundingStatus == {"PENDING", "FUNDED", "REFUNDED"}

MinPayoutCents == 100

PayoutInputs == {99, 5000}

Urls == {"https://example.com/v/1", "https://example.com/v/2"}

UrlInputs == {"https://example.com/v/1", "not a url"}

StripeMessages == {"Insufficient funds", "No such destination"}

NoMission ==
    [campaign_id |-> 0, creator_id |-> Null, state |-> "NONE",
     payout_cents |-> 0, updated_at |-> 0]

\* the columns of a selected mission row that a handler reads after the select
\* (updated_at is read by none)
NoLocalMission ==
    [campaign_id |-> 0, creator_id |-> Null, state |-> "NONE", payout_cents |-> 0]

LocalMission(row) ==
    [campaign_id |-> row.campaign_id, creator_id |-> row.creator_id,
     state |-> row.state, payout_cents |-> row.payout_cents]

NoCampaign ==
    [artist_id |-> 0, budget_cents |-> 0, currency |-> Null,
     payment_intent_id |-> Null, payment_status |-> "NONE"]

\* the missions the model follows: every handler reads and writes only the
\* mission row keyed by its missionId
MissionIds == {1}

\* the row a select ... where id = mid limit 1 yields (NoMission: no row)
selectMission(mid) == IF mid \in DOMAIN missions THEN missions[mid] ELSE NoMission

selectCampaign(cid) == IF cid \in DOMAIN campaigns THEN campaigns[cid] ELSE NoCampaign

\* select from users where auth_user_id = creator_id
selectUserByAuthId(authId) == IF authId \in DOMAIN users THEN users[authId] ELSE NoUser

----------------------------------------------------------------------------
(* Responses and requests in flight *)

NoResp ==
    [status |-> 0, error |-> Null, msg |-> Null, payment_intent |-> Null,
     role |-> Null, roles |-> << >>, amount_cents |-> 0, currency |-> Null, transfer_id |-> 0]

Resp(status, error) == [NoResp EXCEPT !.status = status, !.error = error]

NewReq(op, token, id, url) ==
    [op |-> op, caller |-> getAuthUserId(token),
     appId |-> getAppUser(getAuthUserId(token), Null).id,
     mid |-> id, url |-> url, pc |-> "write", roles |-> << >>,
     m |-> NoLocalMission, c |-> NoCampaign, dest |-> Null, tid |-> 0]

InFlight == BagToSet(reqs)

\* `resp` shows one response at a time: the client has taken the response of
\* the step before (Deliver) when the server takes its next step
Taken == resp = NoResp

\* the handler returns: the request leaves the bag and its response is sent
Reply(r, response) ==
    /\ reqs' = reqs (-) SetToBag({r})
    /\ resp' = response

\* the handler answers before its first await after the entry step
Answer(response) ==
    /\ reqs' = reqs
    /\ resp' = response

\* the handler awaits after its entry step: the request is in flight
Enter(r2) ==
    /\ BagCardinality(reqs) < MaxReq
    /\ reqs' = reqs (+) SetToBag({r2})
    /\ resp' = NoResp

\* the outer catch of every handler: the error requireRole threw
GateResp(thrown) ==
    IF thrown = "UNAUTHORIZED" THEN Resp(401, "Unauthorized") ELSE Resp(403, "Forbidden")

\* the handler awaits its next call
Await(r, r2) ==
    /\ reqs' = (reqs (-) SetToBag({r})) (+) SetToBag({r2})
    /\ resp' = NoResp

----------------------------------------------------------------------------
(* lib/pagination: the cursor codec.  A text is a sequence of character     *)
(* codes (ASCII); a JSON value is a record tagged with its typeof.          *)

\* String.fromCharCode of the characters the cursor texts are made of
QUOTE == 34
BACKSLASH == 92
EQUALS == 61

JsString(text) == [t |-> "string", n |-> 0, s |-> text]
JsNumber(n) == [t |-> "number", n |-> n, s |-> << >>]
JsUndefined == [t |-> "undefined", n |-> 0, s |-> << >>]

\* "created_at" and "id" as texts
KeyCreatedAt == <<99, 114, 101, 97, 116, 101, 100, 95, 97, 116>>
KeyId == <<105, 100>>

\* the decimal digits of a non-negative integer
RECURSIVE Digits(_)
Digits(n) == IF n < 10 THEN <<48 + n>> ELSE Append(Digits(n \div 10), 48 + (n % 10))

\* JSON.stringify of a string: quotes, with " and \ escaped
RECURSIVE Escaped(_)
Escaped(text) ==
    IF text = << >> THEN << >>
    ELSE (IF Head(text) \in {QUOTE, BACKSLASH} THEN <<BACKSLASH, Head(text)>>
          ELSE <<Head(text)>>) \o Escaped(Tail(text))

\* variant: the quotes without the escapes
Quoted_Raw(text) == <<QUOTE>> \o text \o <<QUOTE>>

Quoted(text) == <<QUOTE>> \o Escaped(text) \o <<QUOTE>>

\* JSON.stringify({created_at, id})
JsonStringify(cursor) ==
    <<123>> \o Quoted(KeyCreatedAt) \o <<58>> \o Quoted(cursor.created_at)
            \o <<44>> \o Quoted(KeyId) \o <<58>>
            \o (IF cursor.id.t = "number" THEN Digits(cursor.id.n) ELSE Quoted(cursor.id.s))
            \o <<125>>

\* the base64 alphabet
B64Char(i) ==
    IF i < 26 THEN 65 + i
    ELSE IF i < 52 THEN 97 + (i - 26)
    ELSE IF i < 62 THEN 48 + (i - 52)
    ELSE IF i = 62 THEN 43 ELSE 47

\* the value of a base64 character (also of the url-safe - and _), -1 for
\* any other character
B64Index(c) ==
    IF c >= 65 /\ c <= 90 THEN c - 65
    ELSE IF c >= 97 /\ c <= 122 THEN c - 97 + 26
    ELSE IF c >= 48 /\ c <= 57 THEN c - 48 + 52
    ELSE IF c \in {43, 45} THEN 62
    ELSE IF c \in {47, 95} THEN 63
    ELSE -1

ByteAt(bytes, i) == IF i <= Len(bytes) THEN bytes[i] ELSE 0

Pow64(k) == IF k = 0 THEN 1 ELSE IF k = 1 THEN 64 ELSE IF k = 2 THEN 4096 ELSE 262144

\* Buffer.from(text).toString("base64")
ToBase64(bytes) ==
    [k \in 1..(4 * ((Len(bytes) + 2) \div 3)) |->
        LET g == (k - 1) \div 4
            j == (k - 1) % 4
            triple == ByteAt(bytes, 3 * g + 1) * 65536 + ByteAt(bytes, 3 * g + 2) * 256
                        + ByteAt(bytes, 3 * g + 3)
        IN  IF j = 2 /\ 3 * g + 2 > Len(bytes) THEN EQUALS
            ELSE IF j = 3 /\ 3 * g + 3 > Len(bytes) THEN EQUALS
            ELSE B64Char((triple \div Pow64(3 - j)) % 64)]

\* the sextets of a token: it ends at the first = and characters outside the
\* alphabet are skipped
Sextets(token) ==
    LET stops == {i \in 1..Len(token) : token[i] = EQUALS}
        end == IF stops = {} THEN Len(token)
               ELSE (CHOOSE i \in stops : \A j \in stops : i <= j) - 1
        kept == SelectSeq(SubSeq(token, 1, end), LAMBDA c : B64Index(c) >= 0)
    IN  [i \in 1..Len(kept) |-> B64Index(kept[i])]

Pow2(k) == IF k = 0 THEN 1 ELSE IF k = 2 THEN 4 ELSE 16

\* the bytes that a sequence of sextets holds
Bytes(s) ==
    [i \in 1..((Len(s) * 6) \div 8) |->
        LET q == (8 * (i - 1)) \div 6
            r == (8 * (i - 1)) % 6
        IN  ((s[q + 1] * 64 + s[q + 2]) \div Pow2(4 - r)) % 256]

\* Buffer.from(token, "base64"): never throws
FromBase64(token) == Bytes(Sextets(token))

\* encodeCursor
encodeCursor(cursor) == ToBase64(JsonStringify(cursor))

\* JSON.parse, for the texts a cursor token can hold: an object whose members
\* are strings or non-negative integers, or a bare string or integer; a failed
\* parse is the SyntaxError.  ParseString reads a string literal that starts
\* at text[i]: [ok, val, next].
\* text[j] is the second character of an escape of the literal whose
\* characters start at text[from]: an odd number of backslashes stands
\* directly before it
EscapedAt(text, from, j) ==
    LET s == CHOOSE k \in (from - 1)..(j - 1) :
                 /\ k = from - 1 \/ text[k] # BACKSLASH
                 /\ \A m \in (k + 1)..(j - 1) : text[m] = BACKSLASH
    IN  (j - 1 - s) % 2 = 1

\* the positions where the scan of the literal ends: the closing quote, and
\* the characters that may not stand in a string literal
ClosingAt(text, from) ==
    {j \in from..Len(text) : text[j] = QUOTE /\ ~EscapedAt(text, from, j)}

RejectedAt(text, from) ==
    {j \in from..Len(text) :
        /\ ~EscapedAt(text, from, j)
        /\ \/ text[j] < 32
           \/ /\ text[j] = BACKSLASH
              /\ ~(j + 1 <= Len(text) /\ text[j + 1] \in {QUOTE, BACKSLASH})}

First(S, none) == IF S = {} THEN none ELSE CHOOSE j \in S : \A k \in S : j <= k

\* the characters of the literal up to its closing quote, the escaping
\* backslashes dropped
ParseChars(text, i, acc) ==
    LET close == First(ClosingAt(text, i), Len(text) + 1)
        bad == First(RejectedAt(text, i), Len(text) + 1)
        kept == {j \in i..(close - 1) : text[j] # BACKSLASH \/ EscapedAt(text, i, j)}
    IN  IF bad < close \/ close > Len(text)
          THEN [ok |-> FALSE, val |-> << >>, next |-> bad]
        ELSE [ok |-> TRUE,
              val |-> acc \o [k \in 1..Cardinality(kept) |->
                          text[CHOOSE j \in kept : Cardinality({m \in kept : m <= j}) = k]],
              next |-> close + 1]

ParseString(text, i) ==
    IF i <= Len(text) /\ text[i] = QUOTE THEN ParseChars(text, i + 1, << >>)
    ELSE [ok |-> FALSE, val |-> << >>, next |-> i]

IsDigit(c) == c >= 48 /\ c <= 57

RECURSIVE ParseDigits(_, _, _)
ParseDigits(text, i, acc) ==
    IF i <= Len(text) /\ IsDigit(text[i])
      THEN ParseDigits(text, i + 1, acc * 10 + (text[i] - 48))
    ELSE [ok |-> TRUE, val |-> acc, next |-> i]

\* an integer literal: no leading zero
ParseNumber(text, i) ==
    IF i > Len(text) \/ ~IsDigit(text[i]) THEN [ok |-> FALSE, val |-> 0, next |-> i]
    ELSE IF text[i] = 48 /\ i + 1 <= Len(text) /\ IsDigit(text[i + 1])
      THEN [ok |-> FALSE, val |-> 0, next |-> i]
    ELSE ParseDigits(text, i, 0)

\* the tagged value of a parsed string literal and of a parsed integer
StringValue(p) == [ok |-> p.ok, val |-> JsString(p.val), next |-> p.next]
NumberValue(p) == [ok |-> p.ok, val |-> JsNumber(p.val), next |-> p.next]

\* a string or an integer at text[i]: [ok, val (a tagged value), next]
ParseValue(text, i) ==
    IF i <= Len(text) /\ text[i] = QUOTE THEN StringValue(ParseString(text, i))
    ELSE NumberValue(ParseNumber(text, i))

\* the members of an object from text[i] on, text[i] being the first character
\* of a key: [ok, created_at, id]; a later member of the same name wins.
\* AfterKey continues after the key k, AfterValue after the value v of the
\* member named key.
RECURSIVE ParseMembers(_, _, _, _)
AfterValue(text, key, v, createdAt, id) ==
    IF ~v.ok \/ v.next > Len(text)
      THEN [ok |-> FALSE, created_at |-> createdAt, id |-> id]
    ELSE IF text[v.next] = 125
      THEN [ok |-> v.next = Len(text),
            created_at |-> IF key = KeyCreatedAt THEN v.val ELSE createdAt,
            id |-> IF key = KeyId THEN v.val ELSE id]
    ELSE IF text[v.next] = 44
      THEN ParseMembers(text, v.next + 1,
                        IF key = KeyCreatedAt THEN v.val ELSE createdAt,
                        IF key = KeyId THEN v.val ELSE id)
    ELSE [ok |-> FALSE, created_at |-> createdAt, id |-> id]

AfterKey(text, k, createdAt, id) ==
    IF ~k.ok \/ k.next > Len(text) \/ text[k.next] # 58
      THEN [ok |-> FALSE, created_at |-> createdAt, id |-> id]
    ELSE AfterValue(text, k.val, ParseValue(text, k.next + 1), createdAt, id)

ParseMembers(text, i, createdAt, id) == AfterKey(text, ParseString(text, i), createdAt, id)

\* a text that is one string or one integer: it has neither property
BareValue(text, v) ==
    [ok |-> v.ok /\ v.next = Len(text) + 1, created_at |-> JsUndefined, id |-> JsUndefined]

\* JSON.parse(text) followed by the reads of .created_at and .id:
\* [ok, created_at, id]
JsonParse(text) ==
    IF text = << >> THEN [ok |-> FALSE, created_at |-> JsUndefined, id |-> JsUndefined]
    ELSE IF text[1] = 123
      THEN IF Len(text) = 2 /\ text[2] = 125
             THEN [ok |-> TRUE, created_at |-> JsUndefined, id |-> JsUndefined]
           ELSE ParseMembers(text, 2, JsUndefined, JsUndefined)
    ELSE BareValue(text, ParseValue(text, 1))

NoCursor == [created_at |-> << >>, id |-> JsUndefined]

\* the typeof tests on the parsed value: [error, cursor]
CursorOf(parsed) ==
    IF ~parsed.ok
      THEN [error |-> "Invalid cursor. Cursor must be a valid base64-encoded JSON string.",
            cursor |-> NoCursor]
    ELSE IF parsed.created_at.t # "string" \/ parsed.id.t \notin {"string", "number"}
      THEN [error |-> "Invalid cursor format.", cursor |-> NoCursor]
    ELSE [error |-> Null,
          cursor |-> [created_at |-> parsed.created_at.s, id |-> parsed.id]]

\* the cursor part of parsePaginationParams: [error, cursor]
decodeCursor(token) == CursorOf(JsonParse(FromBase64(token)))

----------------------------------------------------------------------------
(* lib/pagination and the list handlers (GET /api/campaigns, GET            *)
(* /api/missions).  A row of the listed table is [id, created_at]; the       *)
(* column created_at is a timestamp filled by the database (defaultNow),     *)
(* kept in ticks finer than the milliseconds of a JavaScript Date.           *)

\* ticks of the column created_at in one millisecond of a Date
TicksPerMs == 2

\* the driver's conversion of a stored timestamp to a Date (milliseconds)
toDate(ticks) == ticks \div TicksPerMs

\* the driver's conversion of a Date parameter to a timestamp
fromDate(ms) == ms * TicksPerMs

\* "2024-01-01T00:00:00."
IsoPrefix == <<50, 48, 50, 52, 45, 48, 49, 45, 48, 49, 84, 48, 48, 58, 48, 48, 58, 48, 48, 46>>

\* Date.prototype.toISOString, for a Date within the first second of
\* 2024-01-01: the prefix, the milliseconds on three digits, Z
toISOString(ms) ==
    IsoPrefix \o <<48 + (ms \div 100), 48 + ((ms \div 10) % 10), 48 + (ms % 10), 90>>

\* new Date(text).getTime() for such a text; -1 is the Invalid Date
DateParse(text) ==
    IF /\ Len(text) = 24
       /\ SubSeq(text, 1, 20) = IsoPrefix
       /\ \A i \in 21..23 : IsDigit(text[i])
       /\ text[24] = 90
      THEN (text[21] - 48) * 100 + (text[22] - 48) * 10 + (text[23] - 48)
    ELSE -1

\* parseInt(text, 10): leading spaces, a sign, then digits; nan when there is
\* no digit
RECURSIVE SkipSpaces(_)
SkipSpaces(text) ==
    IF text # << >> /\ Head(text) = 32 THEN SkipSpaces(Tail(text)) ELSE text

\* the integer of the digits d read after the sign
IntOf(neg, d) == [nan |-> d.next = 1, n |-> IF neg THEN 0 - d.val ELSE d.val]

\* the integer at the head of a text without leading spaces
SignedDigits(t) ==
    IntOf(t # << >> /\ Head(t) = 45,
          ParseDigits(IF t # << >> /\ Head(t) \in {43, 45} THEN Tail(t) ELSE t, 1, 0))

parseInt(text) == SignedDigits(SkipSpaces(text))

validSorts == {"created_at_desc", "created_at_asc", "id_desc", "id_asc"}

DefaultLimit == 20
MinLimit == 1
\* variant: a wider range
MaxLimit_Wide == 1000
MaxLimit == 100

NoParams == [paged |-> FALSE, error |-> Null, limit |-> 0, sort |-> "", cursor |-> NoCursor]

\* the checks of parsePaginationParams, in its order: the parsed limit, the
\* sort, the decoded cursor
CheckedParams(limitParam, cursorParam, sortParam, parsedLimit, decoded) ==
    IF limitParam # << >>
       /\ (parsedLimit.nan \/ parsedLimit.n < MinLimit \/ parsedLimit.n > MaxLimit)
      THEN [NoParams EXCEPT !.error = "Invalid limit. Must be an integer between 1 and 100."]
    ELSE IF sortParam # "" /\ sortParam \notin validSorts
      THEN [NoParams EXCEPT !.error = "Invalid sort. Must be one of: created_at_desc, created_at_asc, id_desc, id_asc"]
    ELSE IF cursorParam # << >> /\ decoded.error # Null
      THEN [NoParams EXCEPT !.error = decoded.error]
    ELSE [paged |-> TRUE, error |-> Null,
          limit |-> IF limitParam # << >> THEN parsedLimit.n ELSE DefaultLimit,
          sort |-> IF sortParam # "" THEN sortParam ELSE "created_at_desc",
          cursor |-> IF cursorParam # << >> THEN decoded.cursor ELSE NoCursor]

\* variant: only the limit switches the pagination on
parsePaginationParams_LimitOnly(limitParam, cursorParam, sortParam) ==
    IF limitParam = << >> THEN NoParams
    ELSE CheckedParams(limitParam, cursorParam, sortParam,
                       parseInt(limitParam), decodeCursor(cursorParam))

\* parsePaginationParams; an absent parameter is the empty text (the code
\* tests the parameters for truthiness)
parsePaginationParams(limitParam, cursorParam, sortParam) ==
    IF limitParam = << >> /\ cursorParam = << >> /\ sortParam = "" THEN NoParams
    ELSE CheckedParams(limitParam, cursorParam, sortParam,
                       parseInt(limitParam), decodeCursor(cursorParam))

\* buildOrderBy: the two sort keys, first to last
buildOrderBy(sort) ==
    CASE sort = "created_at_desc" -> <<[col |-> "created_at", desc |-> TRUE], [col |-> "id", desc |-> TRUE]>>
      [] sort = "created_at_asc" -> <<[col |-> "created_at", desc |-> FALSE], [col |-> "id", desc |-> FALSE]>>
      [] sort = "id_desc" -> <<[col |-> "id", desc |-> TRUE], [col |-> "created_at", desc |-> TRUE]>>
      [] sort = "id_asc" -> <<[col |-> "id", desc |-> FALSE], [col |-> "created_at", desc |-> FALSE]>>
      [] OTHER -> <<[col |-> "created_at", desc |-> TRUE], [col |-> "id", desc |-> TRUE]>>

\* row a comes before row b under one sort key
KeyBefore(a, b, key) == IF key.desc THEN a[key.col] > b[key.col] ELSE a[key.col] < b[key.col]

\* ORDER BY: row a comes before row b
Precedes(a, b, orderBy) ==
    \/ KeyBefore(a, b, orderBy[1])
    \/ a[orderBy[1].col] = b[orderBy[1].col] /\ KeyBefore(a, b, orderBy[2])

\* the where clause of buildCursorWhere, as the condition on a row
CursorWhere(sort, cursorCreatedAt, cursorId, row) ==
    CASE sort = "created_at_desc" ->
           \/ row.created_at < cursorCreatedAt
           \/ row.created_at = cursorCreatedAt /\ row.id < cursorId
      [] sort = "created_at_asc" ->
           \/ row.created_at > cursorCreatedAt
           \/ row.created_at = cursorCreatedAt /\ row.id > cursorId
      [] sort = "id_desc" ->
           \/ row.id < cursorId
           \/ row.id = cursorId /\ row.created_at < cursorCreatedAt
      [] sort = "id_asc" ->
           \/ row.id > cursorId
           \/ row.id = cursorId /\ row.created_at > cursorCreatedAt
      [] OTHER ->
           \/ row.created_at < cursorCreatedAt
           \/ row.created_at = cursorCreatedAt /\ row.id < cursorId

\* buildCursorWhere; the cursor's created_at goes through new Date and back
\* to a timestamp parameter
buildCursorWhere(sort, cursor, row) ==
    CursorWhere(sort, fromDate(DateParse(cursor.created_at)), cursor.id.n, row)

\* the rows of a set in ORDER BY order (ids are unique, so the order is total)
Ordered(rows, orderBy) ==
    [i \in 1..Cardinality(rows) |->
        CHOOSE r \in rows : Cardinality({q \in rows : Precedes(q, r, orderBy)}) = i - 1]

Take(seq, n) == SubSeq(seq, 1, IF Len(seq) < n THEN Len(seq) ELSE n)

NoPage ==
    [status |-> 0, error |-> Null, queried |-> FALSE, data |-> << >>, nextCursor |-> << >>]

\* variant: a next page is announced as soon as the select fills the page
PageOf_FullPage(results, limit) ==
    LET hasNextPage == Len(results) >= limit
        data == IF hasNextPage THEN SubSeq(results, 1, limit) ELSE results
        lastItem == data[Len(data)]
    IN  [NoPage EXCEPT
            !.status = 200, !.queried = TRUE, !.data = data,
            !.nextCursor =
                IF hasNextPage /\ Len(data) > 0
                  THEN encodeCursor([created_at |-> toISOString(toDate(lastItem.created_at)),
                                     id |-> JsNumber(lastItem.id)])
                ELSE << >>]

\* the slice of the results of the select and the next cursor (the empty text
\* is the null nextCursor)
PageOf(results, limit) ==
    LET hasNextPage == Len(results) > limit
        data == IF hasNextPage THEN SubSeq(results, 1, limit) ELSE results
        lastItem == data[Len(data)]
    IN  [NoPage EXCEPT
            !.status = 200, !.queried = TRUE, !.data = data,
            !.nextCursor =
                IF hasNextPage /\ Len(data) > 0
                  THEN encodeCursor([created_at |-> toISOString(toDate(lastItem.created_at)),
                                     id |-> JsNumber(lastItem.id)])
                ELSE << >>]

\* the rows that the where clause of the select keeps
Matching(rows, params) ==
    IF params.cursor = NoCursor THEN rows
    ELSE {r \in rows : buildCursorWhere(params.sort, params.cursor, r)}

\* the paginated branch of GET: the select with limit + 1, then the page
ListPaged(rows, params) ==
    IF params.cursor # NoCursor /\ DateParse(params.cursor.created_at) < 0
      THEN \* the Invalid Date throws when it is made a query parameter
           [NoPage EXCEPT !.status = 500, !.error = "Internal server error"]
    ELSE IF params.cursor # NoCursor /\ params.cursor.id.t # "number"
      THEN \* the database refuses the comparison of the id with a text
           [NoPage EXCEPT !.status = 500, !.error = "Internal server error",
                          !.queried = TRUE]
    ELSE PageOf(Take(Ordered(Matching(rows, params), buildOrderBy(params.sort)),
                     params.limit + 1),
                params.limit)

ids(data) == [i \in DOMAIN data |-> data[i].id]

\* a cursor a client holds from an earlier page
HeldCursor == encodeCursor([created_at |-> toISOString(1), id |-> JsNumber(2)])

\* the select of the unpaginated branch orders by created_at alone: the rows
\* in any order that has created_at descending
UnpagedOrders(rows) ==
    {data \in [1..Cardinality(rows) -> rows] :
        /\ \A i, j \in DOMAIN data : i # j => data[i] # data[j]
        /\ \A i, j \in DOMAIN data : i < j => data[i].created_at >= data[j].created_at}

\* what a client sends and what it got back
NoCall ==
    [call |-> "none", stateParam |-> "", limitParam |-> << >>, sortParam |-> "",
     cursorParam |-> << >>, status |-> 0, error |-> Null, queried |-> FALSE,
     params |-> NoParams, shape |-> "none", data |-> << >>, nextCursor |-> << >>]

PgIdle ==
    [rows |-> {}, snapshot |-> {}, sort |-> "", limit |-> 0, next |-> << >>,
     out |-> << >>, done |-> FALSE, inserts |-> 0, last |-> NoCall]

FsmIdle ==
    [stored |-> "OPEN", from |-> "OPEN", to |-> "OPEN", can |-> FALSE,
     outcome |-> "none", attempts |-> 0]

InitStore ==
    /\ users = [a \in AuthIds |->
                 CASE a = "a1" -> [id |-> 1, role |-> "ARTIST", roles |-> <<"ARTIST">>,
                                   stripe_account_id |-> Null]
                   [] a = "a2" -> [id |-> 2, role |-> "ARTIST", roles |-> <<"ARTIST">>,
                                   stripe_account_id |-> Null]
                   [] a = "c1" -> [id |-> 3, role |-> "CREATOR", roles |-> <<"CREATOR">>,
                                   stripe_account_id |-> "acct_c1"]
                   [] a = "c2" -> [id |-> 4, role |-> "CREATOR", roles |-> <<"CREATOR">>,
                                   stripe_account_id |-> Null]]
    /\ campaigns = [c \in {1} |->
                      [artist_id |-> 1, budget_cents |-> 50000, currency |-> "eur",
                       payment_intent_id |-> "pi_1", payment_status |-> "PENDING"]]
    /\ missions = << >>
    /\ mission_submissions = << >>
    /\ intents = [c \in {1} |-> "requires_payment_method"]
    /\ transfers = << >>
    /\ stripe_err = Null
    /\ reqs = EmptyBag
    /\ resp = NoResp

Init == InitStore /\ fsm = FsmIdle /\ pg = PgIdle

----------------------------------------------------------------------------
(* The request handlers.  An entry action runs a handler from the request   *)
(* to the await that follows its first select of a row some action writes:  *)
(* requireRole and the selects before that point read only rows and columns *)
(* no action writes (users; campaigns.artist_id), so they take no step of   *)
(* their own.                                                               *)

\* zod: z.string().url()
ValidUrl(url) == url \in Urls

----------------------------------------------------------------------------
(* POST /api/campaigns/[campaignId]/missions *)

CreateMission(token, cid, payoutCents) ==
    /\ Taken
    /\ UNCHANGED <<users, campaigns, mission_submissions, intents, transfers, reqs, fsm, stripe_err, pg>>
    /\ IF requireRole(token, "ARTIST") # "ok"
         THEN missions' = missions /\ resp' = GateResp(requireRole(token, "ARTIST"))
       ELSE IF payoutCents < MinPayoutCents
         THEN missions' = missions /\ resp' = Resp(400, "Validation error")
       ELSE IF selectCampaign(cid) = NoCampaign
         THEN missions' = missions /\ resp' = Resp(404, "Campaign not found")
       ELSE IF selectCampaign(cid).artist_id # getAppUser(getAuthUserId(token), "ARTIST").id
         THEN missions' = missions /\ resp' = Resp(403, "Forbidden")
       ELSE /\ Len(missions) < Cardinality(MissionIds)
            /\ missions' = Append(missions,
                 [campaign_id |-> cid, creator_id |-> Null, state |-> "OPEN",
                  payout_cents |-> payoutCents, updated_at |-> 0])
            /\ resp' = Resp(201, Null)

----------------------------------------------------------------------------
(* POST /api/missions/[missionId]/accept *)

\* variant: the handler without its check of the state it read
Accept_NoStateCheck(token, mid) ==
    /\ Taken
    /\ UNCHANGED <<users, campaigns, missions, mission_submissions, intents, transfers, fsm, stripe_err, pg>>
    /\ LET mission == selectMission(mid) IN
       IF requireRole(token, "CREATOR") # "ok"
         THEN Answer(GateResp(requireRole(token, "CREATOR")))
       ELSE IF mission = NoMission
         THEN Answer(Resp(404, "Mission not found"))
       ELSE Enter(NewReq("accept", token, mid, Null))

Accept(token, mid) ==
    /\ Taken
    /\ UNCHANGED <<users, campaigns, missions, mission_submissions, intents, transfers, fsm, stripe_err, pg>>
    /\ LET mission == selectMission(mid) IN
       IF requireRole(token, "CREATOR") # "ok"
         THEN Answer(GateResp(requireRole(token, "CREATOR")))
       ELSE IF mission = NoMission
         THEN Answer(Resp(404, "Mission not found"))
       ELSE IF mission.state # "OPEN"
         THEN Answer(Resp(400, "Mission is not OPEN"))
       ELSE IF assertTransition(mission.state, "ACCEPTED") # "ok"
         THEN Answer(Resp(400, "Invalid transition"))
       ELSE Enter(NewReq("accept", token, mid, Null))

\* variant: the update without the creator_id column
AcceptUpdate_StateOnly(r) ==
    [missions EXCEPT ![r.mid] =
        [@ EXCEPT !.state = "ACCEPTED", !.updated_at = @ + 1]]

\* update missions set creator_id, state, updated_at where id = missionId
AcceptUpdate(r) ==
    [missions EXCEPT ![r.mid] =
        [@ EXCEPT !.creator_id = r.caller, !.state = "ACCEPTED",
                  !.updated_at = @ + 1]]

AcceptWrite(r) ==
    /\ Taken
    /\ r.op = "accept" /\ r.pc = "write"
    /\ missions[r.mid].updated_at < MaxClock
    /\ missions' = AcceptUpdate(r)
    /\ Reply(r, Resp(200, Null))
    /\ UNCHANGED <<users, campaigns, mission_submissions, intents, transfers, fsm, stripe_err, pg>>

----------------------------------------------------------------------------
(* POST /api/missions/[missionId]/submit *)

\* variant: the handler without its check of the mission's creator
Submit_NoOwnerCheck(token, mid, url) ==
    /\ Taken
    /\ UNCHANGED <<users, campaigns, missions, mission_submissions, intents, transfers, fsm, stripe_err, pg>>
    /\ LET mission == selectMission(mid) IN
       IF ~ValidUrl(url)
         THEN Answer(Resp(400, "Validation error"))
       ELSE IF requireRole(token, "CREATOR") # "ok"
         THEN Answer(GateResp(requireRole(token, "CREATOR")))
       ELSE IF mission = NoMission
         THEN Answer(Resp(404, "Mission not found"))
       ELSE IF mission.state # "ACCEPTED"
         THEN Answer(Resp(400, "Mission is not ACCEPTED"))
       ELSE Enter([NewReq("submit", token, mid, url) EXCEPT !.pc = "upsert"])

Submit(token, mid, url) ==
    /\ Taken
    /\ UNCHANGED <<users, campaigns, missions, mission_submissions, intents, transfers, fsm, stripe_err, pg>>
    /\ LET mission == selectMission(mid) IN
       IF ~ValidUrl(url)
         THEN Answer(Resp(400, "Validation error"))
       ELSE IF requireRole(token, "CREATOR") # "ok"
         THEN Answer(GateResp(requireRole(token, "CREATOR")))
       ELSE IF mission = NoMission
         THEN Answer(Resp(404, "Mission not found"))
       ELSE IF mission.state # "ACCEPTED"
         THEN Answer(Resp(400, "Mission is not ACCEPTED"))
       ELSE IF mission.creator_id # getAuthUserId(token)
         THEN Answer(Resp(403, "Mission does not belong to this creator"))
       ELSE IF assertTransition(mission.state, "SUBMITTED") # "ok"
         THEN Answer(Resp(400, "Invalid transition"))
       ELSE Enter([NewReq("submit", token, mid, url) EXCEPT !.pc = "upsert"])

\* the rows of mission_submissions for mission mid
SubmissionsOf(mid) ==
    {i \in 1..Len(mission_submissions) : mission_submissions[i].mission_id = mid}

\* variant: a plain insert
UpsertSubmission_Insert(mid, url) ==
    Append(mission_submissions, [mission_id |-> mid, tiktok_url |-> url])

\* insert into mission_submissions ... on conflict (mission_id) do update
UpsertSubmission(mid, url) ==
    IF SubmissionsOf(mid) = {}
      THEN Append(mission_submissions, [mission_id |-> mid, tiktok_url |-> url])
    ELSE [i \in 1..Len(mission_submissions) |->
            IF i \in SubmissionsOf(mid)
              THEN [mission_submissions[i] EXCEPT !.tiktok_url = url]
            ELSE mission_submissions[i]]

SubmitUpsert(r) ==
    /\ Taken
    /\ r.op = "submit" /\ r.pc = "upsert"
    /\ mission_submissions' = UpsertSubmission(r.mid, r.url)
    /\ Await(r, [r EXCEPT !.pc = "write"])
    /\ UNCHANGED <<users, campaigns, missions, intents, transfers, fsm, stripe_err, pg>>

SubmitUpdate(r) ==
    [missions EXCEPT ![r.mid] =
        [@ EXCEPT !.state = "SUBMITTED", !.updated_at = @ + 1]]

SubmitWrite(r) ==
    /\ Taken
    /\ r.op = "submit" /\ r.pc = "write"
    /\ missions[r.mid].updated_at < MaxClock
    /\ missions' = SubmitUpdate(r)
    /\ Reply(r, Resp(200, Null))
    /\ UNCHANGED <<users, campaigns, mission_submissions, intents, transfers, fsm, stripe_err, pg>>

----------------------------------------------------------------------------
(* POST /api/missions/[missionId]/verify *)

\* variant: the handler without its check of the campaign's artist
Verify_NoOwnerCheck(token, mid) ==
    /\ Taken
    /\ UNCHANGED <<users, campaigns, missions, mission_submissions, intents, transfers, fsm, stripe_err, pg>>
    /\ LET mission == selectMission(mid)
           campaign == selectCampaign(mission.campaign_id) IN
       IF requireRole(token, "ARTIST") # "ok"
         THEN Answer(GateResp(requireRole(token, "ARTIST")))
       ELSE IF mission = NoMission
         THEN Answer(Resp(404, "Mission not found"))
       ELSE IF campaign = NoCampaign
         THEN Answer(Resp(404, "Campaign not found"))
       ELSE IF mission.state # "SUBMITTED"
         THEN Answer(Resp(400, "Mission is not SUBMITTED"))
       ELSE Enter(NewReq("verify", token, mid, Null))

Verify(token, mid) ==
    /\ Taken
    /\ UNCHANGED <<users, campaigns, missions, mission_submissions, intents, transfers, fsm, stripe_err, pg>>
    /\ LET mission == selectMission(mid)
           campaign == selectCampaign(mission.campaign_id) IN
       IF requireRole(token, "ARTIST") # "ok"
         THEN Answer(GateResp(requireRole(token, "ARTIST")))
       ELSE IF mission = NoMission
         THEN Answer(Resp(404, "Mission not found"))
       ELSE IF campaign = NoCampaign
         THEN Answer(Resp(404, "Campaign not found"))
       ELSE IF campaign.artist_id # getAppUser(getAuthUserId(token), "ARTIST").id
         THEN Answer(Resp(403, "Forbidden: You do not own this campaign"))
       ELSE IF mission.state # "SUBMITTED"
         THEN Answer(Resp(400, "Mission is not SUBMITTED"))
       ELSE IF assertTransition(mission.state, "VERIFIED") # "ok"
         THEN Answer(Resp(400, "Invalid transition"))
       ELSE Enter(NewReq("verify", token, mid, Null))

\* variant: the update without the state column
VerifyUpdate_Touch(r) ==
    [missions EXCEPT ![r.mid] = [@ EXCEPT !.updated_at = @ + 1]]

\* update missions set state, updated_at where id = missionId
VerifyUpdate(r) ==
    [missions EXCEPT ![r.mid] =
        [@ EXCEPT !.state = "VERIFIED", !.updated_at = @ + 1]]

VerifyWrite(r) ==
    /\ Taken
    /\ r.op = "verify" /\ r.pc = "write"
    /\ missions[r.mid].updated_at < MaxClock
    /\ missions' = VerifyUpdate(r)
    /\ Reply(r, Resp(200, Null))
    /\ UNCHANGED <<users, campaigns, mission_submissions, intents, transfers, fsm, stripe_err, pg>>

----------------------------------------------------------------------------
(* POST /api/missions/[missionId]/reject: the artist page calls it; the     *)
(* route is the verify route with REJECTED as the destination state         *)

\* variant: the handler without its check of the campaign's artist
Reject_NoOwnerCheck(token, mid) ==
    /\ Taken
    /\ UNCHANGED <<users, campaigns, missions, mission_submissions, intents, transfers, fsm, stripe_err, pg>>
    /\ LET mission == selectMission(mid)
           campaign == selectCampaign(mission.campaign_id) IN
       IF requireRole(token, "ARTIST") # "ok"
         THEN Answer(GateResp(requireRole(token, "ARTIST")))
       ELSE IF mission = NoMission
         THEN Answer(Resp(404, "Mission not found"))
       ELSE IF campaign = NoCampaign
         THEN Answer(Resp(404, "Campaign not found"))
       ELSE IF mission.state # "SUBMITTED"
         THEN Answer(Resp(400, "Mission is not SUBMITTED"))
       ELSE Enter(NewReq("reject", token, mid, Null))

Reject(token, mid) ==
    /\ Taken
    /\ UNCHANGED <<users, campaigns, missions, mission_submissions, intents, transfers, fsm, stripe_err, pg>>
    /\ LET mission == selectMission(mid)
           campaign == selectCampaign(mission.campaign_id) IN
       IF requireRole(token, "ARTIST") # "ok"
         THEN Answer(GateResp(requireRole(token, "ARTIST")))
       ELSE IF mission = NoMission
         THEN Answer(Resp(404, "Mission not found"))
       ELSE IF campaign = NoCampaign
         THEN Answer(Resp(404, "Campaign not found"))
       ELSE IF campaign.artist_id # getAppUser(getAuthUserId(token), "ARTIST").id
         THEN Answer(Resp(403, "Forbidden: You do not own this campaign"))
       ELSE IF mission.state # "SUBMITTED"
         THEN Answer(Resp(400, "Mission is not SUBMITTED"))
       ELSE IF assertTransition(mission.state, "REJECTED") # "ok"
         THEN Answer(Resp(400, "Invalid transition"))
       ELSE Enter(NewReq("reject", token, mid, Null))

RejectUpdate(r) ==
    [missions EXCEPT ![r.mid] =
        [@ EXCEPT !.state = "REJECTED", !.updated_at = @ + 1]]

RejectWrite(r) ==
    /\ Taken
    /\ r.op = "reject" /\ r.pc = "write"
    /\ missions[r.mid].updated_at < MaxClock
    /\ missions' = RejectUpdate(r)
    /\ Reply(r, Resp(200, Null))
    /\ UNCHANGED <<users, campaigns, mission_submissions, intents, transfers, fsm, stripe_err, pg>>

----------------------------------------------------------------------------
(* POST /api/missions/[missionId]/payout *)

Payout(token, mid) ==
    /\ Taken
    /\ UNCHANGED <<users, campaigns, missions, mission_submissions, intents, transfers, fsm, stripe_err, pg>>
    /\ LET mission == selectMission(mid) IN
       IF requireRole(token, "ARTIST") # "ok"
         THEN Answer(GateResp(requireRole(token, "ARTIST")))
       ELSE IF mission = NoMission
         THEN Answer(Resp(404, "Mission not found"))
       ELSE Enter([NewReq("payout", token, mid, Null)
                     EXCEPT !.pc = "loadCampaign", !.m = LocalMission(mission)])

\* variant: the checks without the check of the mission's state
PayoutChecks_NoStateCheck(r, campaign, creator) ==
    IF campaign = NoCampaign
      THEN Resp(404, "Campaign not found")
    ELSE IF campaign.artist_id # r.appId
      THEN Resp(403, "Forbidden: You do not own this campaign")
    ELSE IF campaign.payment_status # "FUNDED"
      THEN Resp(402, "Campaign is not funded")
    ELSE IF r.m.creator_id = Null
      THEN Resp(400, "Mission has no creator assigned")
    ELSE IF creator = NoUser
      THEN Resp(404, "Creator not found")
    ELSE IF creator.stripe_account_id = Null
      THEN Resp(400, "Creator has not connected their Stripe account")
    ELSE NoResp

\* variant: the checks without the funding check
PayoutChecks_NoFunding(r, campaign, creator) ==
    IF campaign = NoCampaign
      THEN Resp(404, "Campaign not found")
    ELSE IF campaign.artist_id # r.appId
      THEN Resp(403, "Forbidden: You do not own this campaign")
    ELSE IF r.m.state # "VERIFIED"
      THEN Resp(400, "Mission is not VERIFIED")
    ELSE IF r.m.creator_id = Null
      THEN Resp(400, "Mission has no creator assigned")
    ELSE IF creator = NoUser
      THEN Resp(404, "Creator not found")
    ELSE IF creator.stripe_account_id = Null
      THEN Resp(400, "Creator has not connected their Stripe account")
    ELSE NoResp

\* variant: the state check before the funding check
PayoutChecks_StateFirst(r, campaign, creator) ==
    IF campaign = NoCampaign
      THEN Resp(404, "Campaign not found")
    ELSE IF campaign.artist_id # r.appId
      THEN Resp(403, "Forbidden: You do not own this campaign")
    ELSE IF r.m.state # "VERIFIED"
      THEN Resp(400, "Mission is not VERIFIED")
    ELSE IF campaign.payment_status # "FUNDED"
      THEN Resp(402, "Campaign is not funded")
    ELSE IF r.m.creator_id = Null
      THEN Resp(400, "Mission has no creator assigned")
    ELSE IF creator = NoUser
      THEN Resp(404, "Creator not found")
    ELSE IF creator.stripe_account_id = Null
      THEN Resp(400, "Creator has not connected their Stripe account")
    ELSE NoResp

\* variant: the creator's account checked before the mission's state
PayoutChecks_AccountFirst(r, campaign, creator) ==
    IF campaign = NoCampaign
      THEN Resp(404, "Campaign not found")
    ELSE IF campaign.artist_id # r.appId
      THEN Resp(403, "Forbidden: You do not own this campaign")
    ELSE IF campaign.payment_status # "FUNDED"
      THEN Resp(402, "Campaign is not funded")
    ELSE IF r.m.creator_id = Null
      THEN Resp(400, "Mission has no creator assigned")
    ELSE IF creator = NoUser
      THEN Resp(404, "Creator not found")
    ELSE IF creator.stripe_account_id = Null
      THEN Resp(400, "Creator has not connected their Stripe account")
    ELSE IF r.m.state # "VERIFIED"
      THEN Resp(400, "Mission is not VERIFIED")
    ELSE IF assertTransition(r.m.state, "PAID") # "ok"
      THEN Resp(400, "Invalid transition")
    ELSE NoResp

\* the checks from the campaign select to the processor call, in order
PayoutChecks(r, campaign, creator) ==
    IF campaign = NoCampaign
      THEN Resp(404, "Campaign not found")
    ELSE IF campaign.artist_id # r.appId
      THEN Resp(403, "Forbidden: You do not own this campaign")
    ELSE IF campaign.payment_status # "FUNDED"
      THEN Resp(402, "Campaign is not funded")
    ELSE IF r.m.state # "VERIFIED"
      THEN Resp(400, "Mission is not VERIFIED")
    ELSE IF r.m.creator_id = Null
      THEN Resp(400, "Mission has no creator assigned")
    ELSE IF creator = NoUser
      THEN Resp(404, "Creator not found")
    ELSE IF creator.stripe_account_id = Null
      THEN Resp(400, "Creator has not connected their Stripe account")
    ELSE IF assertTransition(r.m.state, "PAID") # "ok"
      THEN Resp(400, "Invalid transition")
    ELSE NoResp

\* the campaign select, then the select of the creator's users row
PayoutLoadCampaign(r) ==
    /\ Taken
    /\ r.op = "payout" /\ r.pc = "loadCampaign"
    /\ UNCHANGED <<users, campaigns, missions, mission_submissions, intents, transfers, fsm, stripe_err, pg>>
    /\ LET campaign == selectCampaign(r.m.campaign_id)
           creator == selectUserByAuthId(r.m.creator_id) IN
       IF PayoutChecks(r, campaign, creator) # NoResp
         THEN Reply(r, PayoutChecks(r, campaign, creator))
       ELSE Await(r, [r EXCEPT !.pc = "transfer", !.c = campaign,
                               !.dest = creator.stripe_account_id])

\* variant: the transfer of the campaign's budget
TransferParams_Budget(r) ==
    [amount |-> r.c.budget_cents, currency |-> r.c.currency,
     destination |-> r.dest, mission_id |-> r.mid, by |-> r]

\* the arguments of stripe.transfers.create; `by` keeps the handler's locals
\* at the call (not sent to the processor)
TransferParams(r) ==
    [amount |-> r.m.payout_cents, currency |-> r.c.currency,
     destination |-> r.dest, mission_id |-> r.mid, by |-> r]

PayoutReceipt(r) ==
    [Resp(200, Null) EXCEPT !.amount_cents = r.m.payout_cents,
                            !.currency = r.c.currency,
                            !.transfer_id = r.tid]

\* variant: the processor's error answered as any other error
PaymentFailed_Generic(msg) == Resp(500, "Internal server error")

\* the catch of the transfer call: a Stripe.errors.StripeError is answered
\* with its message
PaymentFailed(msg) == [Resp(400, "Payment failed") EXCEPT !.msg = msg]

\* variant: the mission is marked PAID with no transfer asked of the processor
PayoutTransfer_NoCall(r) ==
    /\ Taken
    /\ r.op = "payout" /\ r.pc = "transfer"
    /\ Await(r, [r EXCEPT !.pc = "write"])
    /\ UNCHANGED <<users, campaigns, missions, mission_submissions, intents, transfers, fsm, stripe_err, pg>>

PayoutTransfer(r) ==
    /\ Taken
    /\ r.op = "payout" /\ r.pc = "transfer"
    /\ UNCHANGED <<users, campaigns, missions, mission_submissions, intents, fsm, pg>>
    /\ \/ \* the processor creates the transfer
          /\ Len(transfers) < MaxTransfers
          /\ transfers' = Append(transfers, TransferParams(r))
          /\ Await(r, [r EXCEPT !.pc = "write", !.tid = Len(transfers) + 1])
          /\ UNCHANGED stripe_err
       \/ \* the processor rejects the call: Stripe.errors.StripeError
          /\ \E msg \in StripeMessages :
               /\ stripe_err' = msg
               /\ Reply(r, PaymentFailed(msg))
          /\ UNCHANGED transfers
       \/ \* any other error is rethrown to the outer catch
          /\ Reply(r, Resp(500, "Internal server error"))
          /\ UNCHANGED <<transfers, stripe_err>>

\* variant: the update of the payout also clears the creator
PayoutUpdate_Unassign(r) ==
    [missions EXCEPT ![r.mid] =
        [@ EXCEPT !.state = "PAID", !.creator_id = Null, !.updated_at = @ + 1]]

PayoutUpdate(r) ==
    [missions EXCEPT ![r.mid] =
        [@ EXCEPT !.state = "PAID", !.updated_at = @ + 1]]

PayoutWrite(r) ==
    /\ Taken
    /\ r.op = "payout" /\ r.pc = "write"
    /\ missions[r.mid].updated_at < MaxClock
    /\ missions' = PayoutUpdate(r)
    /\ Reply(r, PayoutReceipt(r))
    /\ UNCHANGED <<users, campaigns, mission_submissions, intents, transfers, fsm, stripe_err, pg>>

----------------------------------------------------------------------------
(* Funding: the customer pays the PaymentIntent at the processor; the       *)
(* processor's payment_intent.succeeded webhook and POST                    *)
(* /api/campaigns/[campaignId]/fund write FUNDED                            *)

CustomerPays(cid) ==
    /\ Taken
    /\ intents[cid] # "succeeded"
    /\ intents' = [intents EXCEPT ![cid] = "succeeded"]
    /\ resp' = NoResp
    /\ UNCHANGED <<users, campaigns, missions, mission_submissions, transfers, reqs, fsm, stripe_err, pg>>

\* variant: an update that flips payment_status
MarkFunded_Toggle(cid) ==
    [campaigns EXCEPT ![cid] = [@ EXCEPT !.payment_status =
        IF @ = "FUNDED" THEN "PENDING" ELSE "FUNDED"]]

\* update(campaigns).set({payment_status: "FUNDED"}).where(id = cid)
MarkFunded(cid) ==
    [campaigns EXCEPT ![cid] = [@ EXCEPT !.payment_status = "FUNDED"]]

\* NextResponse.json({received: true})
Received == [Resp(200, Null) EXCEPT !.msg = "received"]

\* variant: the webhook's update also clears the PaymentIntent reference
WebhookPaymentSucceeded_Reset(cid) ==
    /\ Taken
    /\ intents[cid] = "succeeded"
    /\ campaigns' = [MarkFunded(cid) EXCEPT ![cid].payment_intent_id = Null]
    /\ resp' = Received
    /\ UNCHANGED <<users, missions, mission_submissions, intents, transfers, reqs, fsm, stripe_err, pg>>

\* the processor delivers payment_intent.succeeded (as often as it likes)
WebhookPaymentSucceeded(cid) ==
    /\ Taken
    /\ intents[cid] = "succeeded"
    /\ campaigns' = MarkFunded(cid)
    /\ resp' = Received
    /\ UNCHANGED <<users, missions, mission_submissions, intents, transfers, reqs, fsm, stripe_err, pg>>

\* the processor delivers transfer.created or transfer.reversed for one of its
\* transfers: the handler logs the event and writes nothing
WebhookTransfer(tid) ==
    /\ Taken
    /\ tid \in 1..Len(transfers)
    /\ resp' = Received
    /\ UNCHANGED <<users, campaigns, missions, mission_submissions, intents, transfers, reqs, fsm, stripe_err, pg>>

\* requireRole, the campaign select and its checks, up to the processor call
Fund(token, cid) ==
    /\ Taken
    /\ UNCHANGED <<users, campaigns, missions, mission_submissions, intents, transfers, fsm, stripe_err, pg>>
    /\ LET campaign == selectCampaign(cid) IN
       IF requireRole(token, "ARTIST") # "ok"
         THEN Answer(GateResp(requireRole(token, "ARTIST")))
       ELSE IF campaign = NoCampaign
         THEN Answer(Resp(404, "Campaign not found"))
       ELSE IF campaign.artist_id # getAppUser(getAuthUserId(token), "ARTIST").id
         THEN Answer(Resp(403, "Forbidden: You do not own this campaign"))
       ELSE IF campaign.payment_status = "FUNDED"
         THEN Answer(Resp(400, "Campaign is already funded"))
       ELSE IF campaign.payment_intent_id = Null
         THEN Answer(Resp(400, "No PaymentIntent associated with this campaign"))
       ELSE Enter([NewReq("fund", token, cid, Null) EXCEPT !.pc = "retrieve"])

\* the 402 of a PaymentIntent that has not succeeded: its status and its id
PaymentPending(status, id) ==
    [Resp(402, "Payment not yet confirmed") EXCEPT !.msg = status, !.payment_intent = id]

\* variant: the update without the test of the PaymentIntent's status
FundRetrieve_NoStatusCheck(r) ==
    /\ Taken
    /\ r.op = "fund" /\ r.pc = "retrieve"
    /\ UNCHANGED <<users, missions, mission_submissions, intents, transfers, fsm, stripe_err, pg>>
    /\ campaigns' = MarkFunded(r.mid)
    /\ Reply(r, Resp(200, Null))

\* stripe.paymentIntents.retrieve and, when it reports succeeded, the update.
\* Every write of payment_status sets FUNDED, so the update commutes with any
\* step taken between the two calls and they are one step.
FundRetrieve(r) ==
    /\ Taken
    /\ r.op = "fund" /\ r.pc = "retrieve"
    /\ UNCHANGED <<users, missions, mission_submissions, intents, transfers, fsm, stripe_err, pg>>
    /\ IF intents[r.mid] # "succeeded"
         THEN /\ Reply(r, PaymentPending(intents[r.mid], campaigns[r.mid].payment_intent_id))
              /\ UNCHANGED campaigns
       ELSE /\ campaigns' = MarkFunded(r.mid)
            /\ Reply(r, Resp(200, Null))

\* GET /api/campaigns/[campaignId]/payment-intent: the same checks as the fund
\* handler, up to the processor call
GetPaymentIntent(token, cid) ==
    /\ Taken
    /\ UNCHANGED <<users, campaigns, missions, mission_submissions, intents, transfers, fsm, stripe_err, pg>>
    /\ LET campaign == selectCampaign(cid) IN
       IF requireRole(token, "ARTIST") # "ok"
         THEN Answer(GateResp(requireRole(token, "ARTIST")))
       ELSE IF campaign = NoCampaign
         THEN Answer(Resp(404, "Campaign not found"))
       ELSE IF campaign.artist_id # getAppUser(getAuthUserId(token), "ARTIST").id
         THEN Answer(Resp(403, "Forbidden: You do not own this campaign"))
       ELSE IF campaign.payment_status = "FUNDED"
         THEN Answer(Resp(400, "Campaign is already funded"))
       ELSE IF campaign.payment_intent_id = Null
         THEN Answer(Resp(400, "No PaymentIntent associated with this campaign"))
       ELSE Enter([NewReq("payment-intent", token, cid, Null) EXCEPT !.pc = "retrieve"])

\* variant: the campaign is marked FUNDED whatever the PaymentIntent's status
PaymentIntentRetrieve_AnyStatus(r) ==
    /\ Taken
    /\ r.op = "payment-intent" /\ r.pc = "retrieve"
    /\ UNCHANGED <<users, missions, mission_submissions, intents, transfers, fsm, stripe_err, pg>>
    /\ campaigns' = MarkFunded(r.mid)
    /\ Reply(r, Resp(400, "Payment already completed. Campaign is now funded."))

\* stripe.paymentIntents.retrieve: a succeeded PaymentIntent marks the campaign
\* FUNDED and is answered 400, any other is answered with its status
PaymentIntentRetrieve(r) ==
    /\ Taken
    /\ r.op = "payment-intent" /\ r.pc = "retrieve"
    /\ UNCHANGED <<users, missions, mission_submissions, intents, transfers, fsm, stripe_err, pg>>
    /\ IF intents[r.mid] = "succeeded"
         THEN /\ campaigns' = MarkFunded(r.mid)
              /\ Reply(r, Resp(400, "Payment already completed. Campaign is now funded."))
       ELSE /\ Reply(r, [Resp(200, Null) EXCEPT !.msg = intents[r.mid]])
            /\ UNCHANGED campaigns

----------------------------------------------------------------------------
(* POST /api/campaigns: the campaign is inserted, the processor creates its *)
(* PaymentIntent (metadata.campaign_id), the campaign is updated with the   *)
(* PaymentIntent's id.  intents[cid] is the status of the PaymentIntent     *)
(* whose metadata names campaign cid; cid is outside its domain until the   *)
(* processor has created it.                                                *)

\* the campaigns a run may insert
CampaignIds == {1, 2}

\* createCampaignSchema: budgetCents, z.number().int().min(100)
MinBudgetCents == 100

\* the budgets a create request may carry: below the minimum, and a budget
\* smaller than the payout of a mission
BudgetInputs == {99, 1000}

\* the id the processor gives to the PaymentIntent made for campaign cid
PaymentIntentId(cid) == <<"pi_1", "pi_2">>[cid]

NewCampaign(artistId, budgetCents) ==
    [artist_id |-> artistId, budget_cents |-> budgetCents, currency |-> "usd",
     payment_intent_id |-> Null, payment_status |-> "PENDING"]

\* variant: the campaign is inserted before requireRole is called
CreateCampaign_InsertFirst(token, budgetCents) ==
    /\ Taken
    /\ UNCHANGED <<users, missions, mission_submissions, intents, transfers, fsm, stripe_err, pg>>
    /\ IF budgetCents < MinBudgetCents
         THEN Answer(Resp(400, "Validation error")) /\ UNCHANGED campaigns
       ELSE /\ Len(campaigns) + 1 \in CampaignIds
            /\ campaigns' = Append(campaigns,
                  NewCampaign(getAppUser(getAuthUserId(token), Null).id, budgetCents))
            /\ IF requireRole(token, "ARTIST") # "ok"
                 THEN Answer(GateResp(requireRole(token, "ARTIST")))
               ELSE Enter([NewReq("campaign", token, Len(campaigns) + 1, Null)
                             EXCEPT !.pc = "intent"])

\* requireRole, the validation of the body and the insert
CreateCampaign(token, budgetCents) ==
    /\ Taken
    /\ UNCHANGED <<users, missions, mission_submissions, intents, transfers, fsm, stripe_err, pg>>
    /\ IF requireRole(token, "ARTIST") # "ok"
         THEN Answer(GateResp(requireRole(token, "ARTIST"))) /\ UNCHANGED campaigns
       ELSE IF budgetCents < MinBudgetCents
         THEN Answer(Resp(400, "Validation error")) /\ UNCHANGED campaigns
       ELSE /\ Len(campaigns) + 1 \in CampaignIds
            /\ campaigns' = Append(campaigns,
                  NewCampaign(getAppUser(getAuthUserId(token), "ARTIST").id, budgetCents))
            /\ Enter([NewReq("campaign", token, Len(campaigns) + 1, Null)
                        EXCEPT !.pc = "intent"])

\* createCampaignPaymentIntent: the processor creates the PaymentIntent, or
\* the call throws and the outer catch answers 500
CampaignIntent(r) ==
    /\ Taken
    /\ r.op = "campaign" /\ r.pc = "intent"
    /\ UNCHANGED <<users, campaigns, missions, mission_submissions, transfers, fsm, stripe_err, pg>>
    /\ \/ /\ intents' = (r.mid :> "requires_payment_method") @@ intents
          /\ Await(r, [r EXCEPT !.pc = "attach"])
       \/ /\ Reply(r, Resp(500, "Internal server error"))
          /\ UNCHANGED intents

\* update(campaigns).set({payment_intent_id}).where(id = campaign.id)
CampaignAttach(r) ==
    /\ Taken
    /\ r.op = "campaign" /\ r.pc = "attach"
    /\ campaigns' = [campaigns EXCEPT ![r.mid].payment_intent_id = PaymentIntentId(r.mid)]
    /\ Reply(r, [Resp(201, Null) EXCEPT !.payment_intent = PaymentIntentId(r.mid)])
    /\ UNCHANGED <<users, missions, mission_submissions, intents, transfers, fsm, stripe_err, pg>>

----------------------------------------------------------------------------
(* POST /api/auth/sync-user: the handler that keeps the roles array, and    *)
(* the handler that keeps the single role column                            *)

VALID_ROLES == <<"ARTIST", "CREATOR">>

Includes(array, x) == \E i \in 1..Len(array) : array[i] = x

\* array.filter(r => VALID_ROLES.includes(r))
RECURSIVE FilterValid(_)
FilterValid(array) ==
    IF array = << >> THEN << >>
    ELSE IF Includes(VALID_ROLES, Head(array))
      THEN <<Head(array)>> \o FilterValid(Tail(array))
    ELSE FilterValid(Tail(array))

\* Array.from(new Set(array)): the elements in the order of their first occurrence
RECURSIVE ArrayFromSet(_, _)
ArrayFromSet(array, seen) ==
    IF array = << >> THEN << >>
    ELSE IF Head(array) \in seen THEN ArrayFromSet(Tail(array), seen)
    ELSE <<Head(array)>> \o ArrayFromSet(Tail(array), seen \cup {Head(array)})

\* request bodies: roles is Null when body.roles is no array, role is Null when
\* body.role is absent; NoBody also stands for a request without JSON body
NoBody == [roles |-> Null, role |-> Null]

SyncBodies ==
    {NoBody,
     [NoBody EXCEPT !.role = "ARTIST"],
     [NoBody EXCEPT !.roles = <<"ARTIST">>],
     [NoBody EXCEPT !.roles = <<"CREATOR", "ARTIST">>],
     [NoBody EXCEPT !.roles = <<"ARTIST", "ARTIST">>],
     [NoBody EXCEPT !.roles = <<"ADMIN">>]}

\* the roles the handler syncs
ParsedRoles(body) ==
    IF body.roles # Null
      THEN (IF FilterValid(body.roles) = << >> THEN <<"CREATOR">> ELSE FilterValid(body.roles))
    ELSE IF body.role = "ARTIST" \/ body.role = "CREATOR" THEN <<body.role>>
    ELSE <<"CREATOR">>

mergedRoles(existingRoles, roles) == ArrayFromSet(existingRoles \o roles, {})

\* mergedRoles.length !== existingRoles.length || !mergedRoles.every(...)
RolesChanged(merged, existingRoles) ==
    \/ Len(merged) # Len(existingRoles)
    \/ ~\A i \in 1..Len(merged) : Includes(existingRoles, merged[i])

\* GET /api/auth/me: the roles of a row, the role column when the array is empty
RolesOf(user) ==
    IF user.roles = << >>
      THEN (IF user.role = Null THEN {} ELSE {user.role})
    ELSE {user.roles[i] : i \in 1..Len(user.roles)}

\* {message, userId, roles} of the handler with the roles array
SyncResp(status, message, roles) ==
    [Resp(status, Null) EXCEPT !.msg = message, !.roles = roles]

\* {message, userId, role} of the handler with the role column
LegacyResp(status, message, role) ==
    [Resp(status, Null) EXCEPT !.msg = message, !.role = role]

\* existingRoles.length > 0 ? existingRoles : (existingUser.role ? [existingUser.role] : [])
ExistingRoles(user) ==
    IF Len(user.roles) > 0 THEN user.roles
    ELSE IF user.role # Null THEN <<user.role>> ELSE << >>

\* getAuthUserId, the body, the select of the row and, for an existing row
\* whose roles the merge leaves as they are, the answer
SyncUser(token, body) ==
    /\ Taken
    /\ UNCHANGED <<users, campaigns, missions, mission_submissions, intents, transfers, fsm, stripe_err, pg>>
    /\ IF getAuthUserId(token) = Null
         THEN Answer(Resp(401, "Unauthorized"))
       ELSE IF selectUserByAuthId(getAuthUserId(token)) = NoUser
         THEN Enter([NewReq("sync", token, 0, Null) EXCEPT
                        !.pc = "insert", !.roles = ParsedRoles(body)])
       ELSE IF RolesChanged(mergedRoles(users[getAuthUserId(token)].roles, ParsedRoles(body)),
                            users[getAuthUserId(token)].roles)
         THEN Enter([NewReq("sync", token, 0, Null) EXCEPT
                        !.pc = "update",
                        !.roles = mergedRoles(users[getAuthUserId(token)].roles,
                                              ParsedRoles(body))])
       ELSE Answer(SyncResp(200, "User already exists",
                            ExistingRoles(users[getAuthUserId(token)])))

\* the handler with the single role column: an existing row is left as it is
SyncUserLegacy(token, body) ==
    /\ Taken
    /\ UNCHANGED <<users, campaigns, missions, mission_submissions, intents, transfers, fsm, stripe_err, pg>>
    /\ IF getAuthUserId(token) = Null
         THEN Answer(Resp(401, "Unauthorized"))
       ELSE IF selectUserByAuthId(getAuthUserId(token)) = NoUser
         THEN Enter([NewReq("sync-legacy", token, 0, Null) EXCEPT
                        !.pc = "insert",
                        !.roles = IF body.role = "ARTIST" \/ body.role = "CREATOR"
                                    THEN <<body.role>> ELSE <<"CREATOR">>])
       ELSE Answer(LegacyResp(200, "User already exists", users[getAuthUserId(token)].role))

\* update users set roles = mergedRoles where id = existingUser.id
SyncUpdate(r) ==
    /\ Taken
    /\ r.op = "sync" /\ r.pc = "update"
    /\ users' = [users EXCEPT ![r.caller] = [@ EXCEPT !.roles = r.roles]]
    /\ Reply(r, SyncResp(200, "User roles updated", r.roles))
    /\ UNCHANGED <<campaigns, missions, mission_submissions, intents, transfers, fsm, stripe_err, pg>>

\* the row either handler inserts: id is the serial, roles defaults to []
NewUser(r) ==
    [id |-> Cardinality(DOMAIN users) + 1,
     role |-> r.roles[1],
     roles |-> IF r.op = "sync" THEN r.roles ELSE << >>,
     stripe_account_id |-> Null]

\* insert into users: auth_user_id is unique, a second row for it is an error
\* that the handler's catch answers with 500
SyncInsert(r) ==
    /\ Taken
    /\ r.op \in {"sync", "sync-legacy"} /\ r.pc = "insert"
    /\ UNCHANGED <<campaigns, missions, mission_submissions, intents, transfers, fsm, stripe_err, pg>>
    /\ IF r.caller \in DOMAIN users
         THEN /\ Reply(r, Resp(500, "Internal server error"))
              /\ UNCHANGED users
       ELSE /\ users' = [a \in DOMAIN users \cup {r.caller} |->
                           IF a = r.caller THEN NewUser(r) ELSE users[a]]
            /\ Reply(r, IF r.op = "sync"
                           THEN SyncResp(201, "User created", NewUser(r).roles)
                           ELSE LegacyResp(201, "User created", NewUser(r).role))

----------------------------------------------------------------------------
(* The server process stops (or the request is cancelled) at an await: the  *)
(* handler runs no further step and sends no response                       *)

\* variant: a stop that takes back the transfer of the request
Crash_Reversing(r) ==
    /\ Taken
    /\ reqs' = reqs (-) SetToBag({r})
    /\ resp' = NoResp
    /\ transfers' = IF r.tid \in 1..Len(transfers)
                      THEN SubSeq(transfers, 1, r.tid - 1)
                      ELSE transfers
    /\ UNCHANGED <<users, campaigns, missions, mission_submissions, intents, fsm, stripe_err, pg>>

Crash(r) ==
    /\ Taken
    /\ reqs' = reqs (-) SetToBag({r})
    /\ resp' = NoResp
    /\ UNCHANGED <<users, campaigns, missions, mission_submissions, intents, transfers, fsm, stripe_err, pg>>

\* the client takes the response of the step just taken
Deliver ==
    /\ resp # NoResp
    /\ resp' = NoResp
    /\ stripe_err' = Null
    /\ UNCHANGED <<users, campaigns, missions, mission_submissions, intents, transfers, reqs, fsm, pg>>

Next ==
    \/ \E token \in Tokens, cid \in DOMAIN campaigns, payoutCents \in PayoutInputs :
         CreateMission(token, cid, payoutCents)
    \/ \E token \in Tokens, mid \in MissionIds : Accept(token, mid)
    \/ \E token \in Tokens, mid \in MissionIds, url \in UrlInputs : Submit(token, mid, url)
    \/ \E token \in Tokens, mid \in MissionIds : Verify(token, mid)
    \/ \E token \in Tokens, mid \in MissionIds : Reject(token, mid)
    \/ \E token \in Tokens, mid \in MissionIds : Payout(token, mid)
    \/ \E token \in Tokens, cid \in DOMAIN campaigns : Fund(token, cid)
    \/ \E token \in Tokens, cid \in DOMAIN campaigns : GetPaymentIntent(token, cid)
    \/ \E cid \in DOMAIN campaigns : CustomerPays(cid)
    \/ \E cid \in DOMAIN campaigns : WebhookPaymentSucceeded(cid)
    \/ \E tid \in 1..MaxTransfers : WebhookTransfer(tid)
    \/ \E r \in InFlight : AcceptWrite(r)
    \/ \E r \in InFlight : SubmitUpsert(r)
    \/ \E r \in InFlight : SubmitWrite(r)
    \/ \E r \in InFlight : VerifyWrite(r)
    \/ \E r \in InFlight : RejectWrite(r)
    \/ \E r \in InFlight : PayoutLoadCampaign(r)
    \/ \E r \in InFlight : PayoutTransfer(r)
    \/ \E r \in InFlight : PayoutWrite(r)
    \/ \E r \in InFlight : FundRetrieve(r)
    \/ \E r \in InFlight : PaymentIntentRetrieve(r)
    \/ \E r \in InFlight : Crash(r)
    \/ Deliver

Spec == Init /\ [][Next]_vars

----------------------------------------------------------------------------
(* Accounts: the sync handlers on an empty store, and two handlers behind   *)
(* requireRole, one for each role                                           *)

InitAuth ==
    /\ users = << >>
    /\ campaigns = << >>
    /\ missions = << >>
    /\ mission_submissions = << >>
    /\ intents = << >>
    /\ transfers = << >>
    /\ stripe_err = Null
    /\ reqs = EmptyBag
    /\ resp = NoResp
    /\ fsm = FsmIdle
    /\ pg = PgIdle

\* two identities and an invalid token
AuthTokens == {"a1", "c1", "bad"}

NextAuth ==
    \/ \E token \in AuthTokens, body \in SyncBodies : SyncUser(token, body)
    \/ \E token \in AuthTokens, body \in SyncBodies : SyncUserLegacy(token, body)
    \/ \E r \in InFlight : SyncUpdate(r)
    \/ \E r \in InFlight : SyncInsert(r)
    \/ \E token \in AuthTokens : CreateMission(token, 1, 5000)
    \/ \E token \in AuthTokens : Accept(token, 1)
    \/ \E r \in InFlight : Crash(r)
    \/ Deliver

SpecAuth == InitAuth /\ [][NextAuth]_vars

----------------------------------------------------------------------------
(* One client at a time: the artist a1 and the creator c1 take a campaign   *)
(* from payment to the payout of its mission, each sending the request the  *)
(* state of the store calls for and waiting for its response; the other     *)
(* identities send requests in between.  The processor accepts the          *)
(* transfer and no request is cancelled.                                    *)

Idle == reqs = EmptyBag

\* the requests of a1 and c1
HappyClient ==
    \/ campaigns[1].payment_status = "PENDING" /\ intents[1] = "succeeded" /\ Fund("a1", 1)
    \/ /\ campaigns[1].payment_status = "FUNDED" /\ selectMission(1) = NoMission
       /\ CreateMission("a1", 1, 5000)
    \/ selectMission(1).state = "OPEN" /\ Accept("c1", 1)
    \/ selectMission(1).state = "ACCEPTED" /\ \E url \in Urls : Submit("c1", 1, url)
    \/ selectMission(1).state = "SUBMITTED" /\ Verify("a1", 1)
    \/ selectMission(1).state = "VERIFIED" /\ Payout("a1", 1)

\* the requests of the other identities and of an invalid token
Bystander(token) ==
    \/ Fund(token, 1)
    \/ CreateMission(token, 1, 5000)
    \/ token # "c2" /\ Accept(token, 1)
    \/ \E url \in UrlInputs : Submit(token, 1, url)
    \/ Verify(token, 1)
    \/ Reject(token, 1)
    \/ Payout(token, 1)

NextHappy ==
    \/ Idle /\ CustomerPays(1)
    \/ WebhookPaymentSucceeded(1)
    \/ Idle /\ HappyClient
    \/ Idle /\ \E token \in {"a2", "c2", "bad"} : Bystander(token)
    \/ \E r \in InFlight : FundRetrieve(r)
    \/ \E r \in InFlight : AcceptWrite(r)
    \/ \E r \in InFlight : SubmitUpsert(r)
    \/ \E r \in InFlight : SubmitWrite(r)
    \/ \E r \in InFlight : VerifyWrite(r)
    \/ \E r \in InFlight : PayoutLoadCampaign(r)
    \/ \E r \in InFlight : PayoutTransfer(r) /\ transfers' # transfers
    \/ \E r \in InFlight : PayoutWrite(r)
    \/ Deliver

SpecHappy == Init /\ [][NextHappy]_vars

----------------------------------------------------------------------------
(* The mission workflow alone (no funding, no payout), with submissions of   *)
(* two different urls.                                                       *)

NextSubmit ==
    \/ \E token \in Tokens, cid \in DOMAIN campaigns, payoutCents \in PayoutInputs :
          CreateMission(token, cid, payoutCents)
    \/ \E token \in Tokens, mid \in MissionIds : Accept(token, mid)
    \/ \E token \in Tokens, mid \in MissionIds, url \in Urls \cup {"not a url"} :
          Submit(token, mid, url)
    \/ \E token \in Tokens, mid \in MissionIds : Verify(token, mid)
    \/ \E token \in Tokens, mid \in MissionIds : Reject(token, mid)
    \/ \E r \in InFlight : AcceptWrite(r)
    \/ \E r \in InFlight : SubmitUpsert(r)
    \/ \E r \in InFlight : SubmitWrite(r)
    \/ \E r \in InFlight : VerifyWrite(r)
    \/ \E r \in InFlight : RejectWrite(r)
    \/ \E r \in InFlight : Crash(r)
    \/ Deliver

SpecSubmit == Init /\ [][NextSubmit]_vars

----------------------------------------------------------------------------
(* The transition table on its own: a state `stored`, a requested            *)
(* destination `to`, and the check-then-write every handler performs         *)
(* (assertTransition, then the write of the destination state).              *)

FsmPick(to) ==
    /\ fsm.outcome # "pending"
    /\ fsm.attempts < MaxAttempts
    /\ fsm' = [fsm EXCEPT !.to = to, !.outcome = "pending", !.attempts = @ + 1]
    /\ UNCHANGED <<users, campaigns, missions, mission_submissions, intents, transfers, reqs, resp, stripe_err, pg>>

FsmApply ==
    /\ fsm.outcome = "pending"
    /\ fsm' = [fsm EXCEPT
                 !.from = fsm.stored,
                 !.can = canTransition(fsm.stored, fsm.to),
                 !.outcome = assertTransition(fsm.stored, fsm.to),
                 !.stored = IF assertTransition(fsm.stored, fsm.to) = "ok"
                              THEN fsm.to ELSE fsm.stored]
    /\ UNCHANGED <<users, campaigns, missions, mission_submissions, intents, transfers, reqs, resp, stripe_err, pg>>

InitFSM ==
    /\ InitStore
    /\ \E s \in MissionState, t \in MissionState :
         fsm = [FsmIdle EXCEPT !.stored = s, !.to = t, !.outcome = "pending"]
    /\ pg = PgIdle

NextFSM ==
    \/ \E to \in MissionState : FsmPick(to)
    \/ FsmApply

SpecFSM == InitFSM /\ [][NextFSM]_vars

----------------------------------------------------------------------------
(* A client lists the table page by page while other clients send list      *)
(* requests of their own and rows are inserted.                              *)

RowIds == 1..MaxRows

\* two milliseconds of ticks
Ticks == 0..(2 * TicksPerMs - 1)

RowSets ==
    {{[id |-> i, created_at |-> f[i]] : i \in {j \in RowIds : f[j] \in Ticks}} :
        f \in [RowIds -> Ticks \cup {-1}]}

PageLimits == {1, 2, 100}

\* the limit parameters sent by the other clients: absent, 2, 200, 0, -1, abc
LimitParams == {<< >>, <<50>>, <<50, 48, 48>>, <<48>>, <<45, 49>>, <<97, 98, 99>>}

SortParams == {"", "id_asc", "bogus"}

\* a cursor parameter that is no token: invalid_cursor, and the token of
\* {"id":1}
BadCursorParams == {<<105, 110, 118, 97, 108, 105, 100, 95, 99, 117, 114, 115, 111, 114>>, <<101, 121, 74, 112, 90, 67, 73, 54, 77, 88, 48, 61>>}

\* the token of {"created_at":"x","id":1}: a text that is no timestamp
UntimedCursor == encodeCursor([created_at |-> <<120>>, id |-> JsNumber(1)])

\* cursors as the handlers build them and as a client may build them
ValidCursors ==
    {[created_at |-> ca, id |-> id] :
        ca \in {toISOString(0), toISOString(123)},
        id \in {JsNumber(7), JsNumber(120), JsString(<<55>>),
                JsString(<<57, 102, 45, 101>>), JsString(<<97, 34, 98, 92>>)}}

PgUnchanged ==
    UNCHANGED <<users, campaigns, missions, mission_submissions, intents, transfers,
                stripe_err, reqs, resp, fsm>>

\* the response of a list request of another client has been taken
PgTaken == pg.last.call \in {"none", "page"}

\* the client of the traversal asks for a page: the first one with the sort
\* and the limit it chooses and no cursor, the next ones with the same sort
\* and limit and the nextCursor of the page before (pg.limit = 0: the
\* traversal has not begun)
FetchPage(sort, limit) ==
    /\ PgTaken
    /\ ~pg.done
    /\ Len(pg.out) < MaxFetched
    /\ pg.limit # 0 => sort = pg.sort /\ limit = pg.limit
    /\ \E params \in {parsePaginationParams(Digits(limit), pg.next, sort)} :
       \E page \in {ListPaged(pg.rows, params)} :
           pg' = [pg EXCEPT
                    !.sort = sort,
                    !.limit = limit,
                    !.out = @ \o ids(page.data),
                    !.next = page.nextCursor,
                    !.done = page.nextCursor = << >>,
                    !.last = [NoCall EXCEPT
                                !.call = "page", !.limitParam = Digits(limit),
                                !.sortParam = sort, !.cursorParam = pg.next,
                                !.status = page.status, !.error = page.error,
                                !.queried = page.queried, !.params = params]]
    /\ PgUnchanged

\* the response of the paginated branch: {data, nextCursor}, or the 500 of
\* the outer catch
Paged(call, page) ==
    [call EXCEPT !.status = page.status, !.error = page.error, !.queried = page.queried,
                 !.shape = IF page.status = 200 THEN "envelope" ELSE "none",
                 !.data = ids(page.data), !.nextCursor = page.nextCursor]

\* GET /api/campaigns with any parameters: parsePaginationParams, then the select.  The
\* handler reads the table only, and every table a traversal reaches is the
\* table of an initial state: the requests of other clients are taken there.
ListRequest(limitParam, sortParam, cursorParam) ==
    /\ pg.last.call = "none" /\ pg.limit = 0
    /\ \E params \in {parsePaginationParams(limitParam, cursorParam, sortParam)} :
       \E call \in {[NoCall EXCEPT !.call = "list", !.limitParam = limitParam,
                                   !.sortParam = sortParam, !.cursorParam = cursorParam,
                                   !.params = params]} :
           IF params.error # Null
             THEN pg' = [pg EXCEPT !.last = [call EXCEPT !.status = 400, !.error = params.error]]
           ELSE IF ~params.paged
             THEN \E data \in UnpagedOrders(pg.rows) :
                    pg' = [pg EXCEPT !.last = [call EXCEPT !.status = 200, !.queried = TRUE,
                                                           !.shape = "array",
                                                           !.data = ids(data)]]
           ELSE \E page \in {ListPaged(pg.rows, params)} :
                    pg' = [pg EXCEPT !.last = Paged(call, page)]
    /\ PgUnchanged

\* the state column of the listed missions: in the tables drawn here it is
\* fixed by the id, so that a filter keeps some rows and drops others
RowState(id) == IF id % 2 = 1 THEN "OPEN" ELSE "ACCEPTED"

\* the rows the state filter keeps (all of them without a filter)
WithState(rows, stateParam) ==
    IF stateParam = "" THEN rows ELSE {r \in rows : RowState(r.id) = stateParam}

\* GET /api/missions: the state filter is validated, then the pagination
\* parameters, then the select runs on the rows of that state
ListMissions(stateParam, limitParam, sortParam, cursorParam) ==
    /\ pg.last.call = "none" /\ pg.limit = 0
    /\ \E params \in {parsePaginationParams(limitParam, cursorParam, sortParam)} :
       \E call \in {[NoCall EXCEPT !.call = "missions", !.stateParam = stateParam,
                                   !.limitParam = limitParam, !.sortParam = sortParam,
                                   !.cursorParam = cursorParam, !.params = params]} :
           IF stateParam # "" /\ stateParam \notin MissionState
             THEN pg' = [pg EXCEPT !.last = [call EXCEPT !.status = 400, !.error = "Invalid state",
                                                         !.params = NoParams]]
           ELSE IF params.error # Null
             THEN pg' = [pg EXCEPT !.last = [call EXCEPT !.status = 400, !.error = params.error]]
           ELSE IF ~params.paged
             THEN \E data \in UnpagedOrders(WithState(pg.rows, stateParam)) :
                    pg' = [pg EXCEPT !.last = [call EXCEPT !.status = 200, !.queried = TRUE,
                                                           !.shape = "array",
                                                           !.data = ids(data)]]
           ELSE \E page \in {ListPaged(WithState(pg.rows, stateParam), params)} :
                    pg' = [pg EXCEPT !.last = Paged(call, page)]
    /\ PgUnchanged

\* parsePaginationParams applied to the parameters of a request
ParseParams(limitParam, sortParam, cursorParam) ==
    /\ pg.last.call = "none" /\ pg.limit = 0
    /\ \E params \in {parsePaginationParams(limitParam, cursorParam, sortParam)} :
       pg' = [pg EXCEPT !.last = [NoCall EXCEPT
                 !.call = "parse", !.limitParam = limitParam, !.sortParam = sortParam,
                 !.cursorParam = cursorParam, !.error = params.error, !.params = params]]
    /\ PgUnchanged

\* another request inserts a row during the traversal: a new id,
\* created_at = now()
InsertRow(id, now) ==
    /\ PgTaken
    /\ pg.limit # 0
    /\ ~pg.done
    /\ pg.inserts < MaxInserts
    /\ id \notin {r.id : r \in pg.rows}
    /\ \A r \in pg.rows : r.created_at <= now
    /\ pg' = [pg EXCEPT !.rows = @ \cup {[id |-> id, created_at |-> now]},
                        !.inserts = @ + 1]
    /\ PgUnchanged

\* the client has the response of its list request
PgDeliver ==
    /\ ~PgTaken
    /\ pg' = [pg EXCEPT !.last = NoCall]
    /\ PgUnchanged

InitPage ==
    /\ InitStore
    /\ fsm = FsmIdle
    /\ \E rows \in RowSets : pg = [PgIdle EXCEPT !.rows = rows, !.snapshot = rows]

NextPage ==
    \/ \E sort \in validSorts, limit \in PageLimits : FetchPage(sort, limit)
    \/ \E l \in LimitParams, s \in SortParams,
          c \in BadCursorParams \cup {<< >>, UntimedCursor} :
         ListRequest(l, s, c)
    \/ \E st \in {"", "OPEN", "bogus"}, l \in {<< >>, <<50>>}, s \in {"", "id_asc"},
          c \in {<< >>, HeldCursor} :
         ListMissions(st, l, s, c)
    \/ \E c \in ValidCursors : ParseParams(<< >>, "", encodeCursor(c))
    \/ \E id \in RowIds, now \in Ticks : InsertRow(id, now)
    \/ PgDeliver

SpecPage == InitPage /\ [][NextPage]_vars

----------------------------------------------------------------------------
(* Campaigns from their creation: the store holds the accounts and no       *)
(* campaign; campaigns are created and funded while the mission handlers    *)
(* take requests one at a time.                                             *)

InitCampaign ==
    /\ users = [a \in AuthIds |->
                 CASE a = "a1" -> [id |-> 1, role |-> "ARTIST", roles |-> <<"ARTIST">>,
                                   stripe_account_id |-> Null]
                   [] a = "a2" -> [id |-> 2, role |-> "ARTIST", roles |-> <<"ARTIST">>,
                                   stripe_account_id |-> Null]
                   [] a = "c1" -> [id |-> 3, role |-> "CREATOR", roles |-> <<"CREATOR">>,
                                   stripe_account_id |-> "acct_c1"]
                   [] a = "c2" -> [id |-> 4, role |-> "CREATOR", roles |-> <<"CREATOR">>,
                                   stripe_account_id |-> Null]]
    /\ campaigns = << >>
    /\ missions = << >>
    /\ mission_submissions = << >>
    /\ intents = << >>
    /\ transfers = << >>
    /\ stripe_err = Null
    /\ reqs = EmptyBag
    /\ resp = NoResp
    /\ fsm = FsmIdle
    /\ pg = PgIdle

\* the callers of the mission handlers here: the artist and the creator of
\* the workflow, and an invalid token
WorkflowTokens == {"a1", "c1", "bad"}

NextCampaign ==
    \/ \E token \in Tokens, budgetCents \in BudgetInputs : CreateCampaign(token, budgetCents)
    \/ \E r \in InFlight : CampaignIntent(r)
    \/ \E r \in InFlight : CampaignAttach(r)
    \/ \E cid \in DOMAIN intents : CustomerPays(cid)
    \/ \E cid \in DOMAIN intents : WebhookPaymentSucceeded(cid)
    \/ \E token \in Tokens, cid \in CampaignIds : Fund(token, cid)
    \/ \E token \in Tokens, cid \in CampaignIds : GetPaymentIntent(token, cid)
    \/ \E r \in InFlight : FundRetrieve(r)
    \/ \E r \in InFlight : PaymentIntentRetrieve(r)
    \/ Idle /\ \E token \in WorkflowTokens, cid \in CampaignIds : CreateMission(token, cid, 5000)
    \/ Idle /\ \E token \in WorkflowTokens, mid \in MissionIds : Accept(token, mid)
    \/ Idle /\ \E token \in WorkflowTokens, mid \in MissionIds, url \in UrlInputs :
                 Submit(token, mid, url)
    \/ Idle /\ \E token \in WorkflowTokens, mid \in MissionIds : Verify(token, mid)
    \/ Idle /\ \E token \in WorkflowTokens, mid \in MissionIds : Payout(token, mid)
    \/ \E r \in InFlight : AcceptWrite(r)
    \/ \E r \in InFlight : SubmitUpsert(r)
    \/ \E r \in InFlight : SubmitWrite(r)
    \/ \E r \in InFlight : VerifyWrite(r)
    \/ \E r \in InFlight : PayoutLoadCampaign(r)
    \/ \E r \in InFlight : PayoutTransfer(r)
    \/ \E r \in InFlight : PayoutWrite(r)
    \/ \E r \in InFlight : Crash(r)
    \/ Deliver

SpecCampaign == InitCampaign /\ [][NextCampaign]_vars

----------------------------------------------------------------------------
(* Claims *)

\* the transition table of the specification, written out as pairs
TableEdges ==
    {<<"OPEN", "ACCEPTED">>, <<"ACCEPTED", "SUBMITTED">>, <<"SUBMITTED", "VERIFIED">>,
     <<"SUBMITTED", "REJECTED">>, <<"VERIFIED", "PAID">>}

\* C1: for each of the 36 pairs (from, to), canTransition is true exactly on
\* the five table edges (never when from = to), assertTransition returns on
\* exactly those pairs and throws InvalidTransition on every other pair, and
\* the stored state changes only when it returned.
C1_TransitionTable ==
    fsm.outcome \notin {"none", "pending"} =>
        /\ fsm.can <=> (<<fsm.from, fsm.to>> \in TableEdges /\ fsm.from # fsm.to)
        /\ fsm.outcome = "ok" <=> <<fsm.from, fsm.to>> \in TableEdges
        /\ fsm.outcome # "ok" => fsm.outcome = "InvalidTransition" /\ fsm.stored = fsm.from
        /\ fsm.outcome = "ok" => fsm.stored = fsm.to

C1_Witness ==
    /\ fsm.outcome = "InvalidTransition"
    /\ fsm.from = "PAID" /\ fsm.to = "PAID"
    /\ fsm.attempts > 0

\* request r leaves the bag in this step
Leaves(r) == CopiesIn(r, reqs') < CopiesIn(r, reqs)

\* request r takes a step of its handler in this step (it is not dropped)
Steps(r) == Leaves(r) /\ ~(reqs' = reqs (-) SetToBag({r}) /\ resp' = NoResp)

\* request r2 enters the bag in this step
Arrives(r2) == CopiesIn(r2, reqs') > CopiesIn(r2, reqs)

\* the indices of the transfers created for mission mid
TransfersOf(mid) == {i \in 1..Len(transfers) : transfers[i].mission_id = mid}

\* C2: under every interleaving of requests, the stored state of a mission
\* changes only along an edge of the transition table.
C2_OnlyTableEdges ==
    [][\A mid \in DOMAIN missions :
          missions'[mid].state # missions[mid].state =>
              <<missions[mid].state, missions'[mid].state>> \in TableEdges]_vars

\* C3: every transfer the processor created was asked for by a payout request
\* whose caller owns the campaign of the mission and which read the campaign
\* as FUNDED and the mission as VERIFIED.
C3_TransferOnlyFundedVerified ==
    \A i \in 1..Len(transfers) :
        LET by == transfers[i].by IN
        /\ by.op = "payout"
        /\ by.mid = transfers[i].mission_id
        /\ by.m.campaign_id = missions[by.mid].campaign_id
        /\ by.c.artist_id = campaigns[by.m.campaign_id].artist_id
        /\ by.c.artist_id = users[by.caller].id
        /\ by.c.payment_status = "FUNDED"
        /\ by.m.state = "VERIFIED"

C3_Witness ==
    /\ Len(transfers) > 0
    /\ transfers[1].by.m.state = "VERIFIED"
    /\ transfers[1].by.c.payment_status = "FUNDED"

\* C4: a payout request of the campaign's owner that reads the campaign as not
\* FUNDED is answered 402 "Campaign is not funded" whatever state it read for
\* the mission, creates no transfer and leaves the store as it was.
C4_FundingRequiredFirst ==
    [][\A r \in InFlight :
          (/\ r.op = "payout" /\ r.pc = "loadCampaign"
           /\ Steps(r)
           /\ selectCampaign(r.m.campaign_id) # NoCampaign
           /\ selectCampaign(r.m.campaign_id).artist_id = users[r.caller].id
           /\ selectCampaign(r.m.campaign_id).payment_status # "FUNDED")
          => /\ resp' = Resp(402, "Campaign is not funded")
             /\ ~(\E r2 \in BagToSet(reqs') : Arrives(r2))
             /\ UNCHANGED <<missions, campaigns, mission_submissions, transfers>>]_vars

C4_Witness ==
    /\ resp = Resp(402, "Campaign is not funded")
    /\ missions[1].state = "VERIFIED"
    /\ campaigns[1].payment_status = "PENDING"
    /\ transfers = << >>

\* C5: the processor creates at most one transfer for a mission, whatever the
\* interleaving of payout requests and whatever request is dropped and retried.
C5_AtMostOneTransfer ==
    \A mid \in DOMAIN missions : Cardinality(TransfersOf(mid)) <= 1

\* C6: when the processor rejects the transfer call, the payout request is
\* answered 400 "Payment failed" with the processor's message and nothing is
\* written: the mission row (state, creator_id, updated_at) is as it was.
C6_RejectedTransferWritesNothing ==
    [][\A r \in InFlight :
          (r.op = "payout" /\ r.pc = "transfer" /\ Steps(r) /\ stripe_err' # Null)
          => /\ resp'.status = 400
             /\ resp'.error = "Payment failed"
             /\ resp'.msg = stripe_err'
             /\ resp'.transfer_id = 0
             /\ UNCHANGED <<missions, campaigns, mission_submissions, users, transfers>>]_vars

C6_Witness ==
    /\ stripe_err = "No such destination"
    /\ resp.error = "Payment failed"
    /\ missions[1].state = "VERIFIED"

\* C7: when the payout request answers after the processor accepted its call,
\* the transfer was asked for the mission's payout_cents, in the campaign's
\* currency, to the Stripe account of the mission's creator; the mission is
\* written PAID and the receipt carries that amount, that currency and the id
\* of that transfer.
C7_PayoutSuccess ==
    [][\A r \in InFlight :
          (r.op = "payout" /\ r.pc = "write" /\ Steps(r))
          => /\ r.tid \in TransfersOf(r.mid)
             /\ transfers[r.tid].amount = missions[r.mid].payout_cents
             /\ transfers[r.tid].currency = campaigns[missions[r.mid].campaign_id].currency
             /\ transfers[r.tid].destination = users[r.m.creator_id].stripe_account_id
             /\ transfers[r.tid].destination # Null
             /\ missions'[r.mid].state = "PAID"
             /\ resp'.status = 200
             /\ resp'.amount_cents = transfers[r.tid].amount
             /\ resp'.currency = transfers[r.tid].currency
             /\ resp'.transfer_id = r.tid]_vars

C7_Witness ==
    /\ resp.status = 200 /\ resp.transfer_id = 1
    /\ resp.amount_cents = 5000 /\ resp.currency = "eur"
    /\ missions[1].state = "PAID"
    /\ transfers[1].destination = "acct_c1"

\* C8: a mission has a creator_id exactly when its state is not OPEN.
C8_AssigneeIffNotOpen ==
    \A mid \in DOMAIN missions :
        missions[mid].creator_id # Null <=> missions[mid].state # "OPEN"

C8_Witness ==
    /\ missions # << >>
    /\ missions[1].state = "SUBMITTED"
    /\ missions[1].creator_id = "c2"

\* C9: once a mission has a creator_id no later accept replaces it: of the
\* accept requests for one mission at most one writes.
C9_AssigneeNeverReplaced ==
    [][\A mid \in DOMAIN missions :
          missions[mid].creator_id # Null =>
              missions'[mid].creator_id = missions[mid].creator_id]_vars

\* C10: an accept request goes on to its write only when its caller has the
\* CREATOR role and it read the mission as OPEN, and the write sets creator_id
\* to the caller and state to ACCEPTED in one update; an accept request that
\* read another state is answered 400 and the store is as it was.
C10_AcceptWrite ==
    [][/\ \A r2 \in BagToSet(reqs') :
             (r2.op = "accept" /\ Arrives(r2))
             => /\ users[r2.caller].role = "CREATOR"
                /\ missions[r2.mid].state = "OPEN"
                /\ UNCHANGED <<missions, campaigns, mission_submissions, transfers>>
       /\ \A r \in InFlight :
             (r.op = "accept" /\ Steps(r))
             => /\ resp'.status = 200
                /\ missions'[r.mid].creator_id = r.caller
                /\ missions'[r.mid].state = "ACCEPTED"
                /\ \A mid \in DOMAIN missions : mid # r.mid => missions'[mid] = missions[mid]
       /\ resp'.error = "Mission is not OPEN"
             => /\ resp'.status = 400
                /\ reqs' = reqs
                /\ UNCHANGED <<missions, campaigns, mission_submissions, transfers>>]_vars

C10_Witness ==
    /\ resp = Resp(400, "Mission is not OPEN")
    /\ missions[1].state = "ACCEPTED"
    /\ missions[1].creator_id = "c1"

\* the caller of token holds the CREATOR role and is not the creator of the
\* existing mission mid
OtherCreator(token, mid) ==
    /\ requireRole(token, "CREATOR") = "ok"
    /\ selectMission(mid) # NoMission
    /\ missions[mid].creator_id # Null
    /\ missions[mid].creator_id # getAuthUserId(token)

\* C11: a submit with a valid body against an ACCEPTED mission by a caller
\* holding the CREATOR role who is not the mission's creator is answered 403
\* "Mission does not belong to this creator"; the mission row and the
\* submission rows are as they were and the request goes no further.
C11_WrongActorSubmit ==
    [][\A mid \in MissionIds :
          (Taken /\ selectMission(mid).state = "ACCEPTED")
          => \A token \in Tokens, url \in Urls :
                (OtherCreator(token, mid) /\ Submit(token, mid, url))
                => /\ resp' = Resp(403, "Mission does not belong to this creator")
                   /\ reqs' = reqs
                   /\ UNCHANGED <<missions, mission_submissions>>]_vars

C11_Witness ==
    /\ resp = Resp(403, "Mission does not belong to this creator")
    /\ missions[1].state = "ACCEPTED"
    /\ missions[1].creator_id = "c1"
    /\ mission_submissions = << >>

\* C12: whenever the creator of a mission submits a valid url and the request
\* is answered, the store holds exactly one submission row for the mission and
\* its url is the one submitted (so submitting A then B leaves url B).
C12_ResubmitOverwrites ==
    [][\A token \in Tokens, mid \in MissionIds, url \in Urls :
          (/\ Submit(token, mid, url)
           /\ requireRole(token, "CREATOR") = "ok"
           /\ selectMission(mid) # NoMission
           /\ missions[mid].creator_id = getAuthUserId(token)
           /\ resp' # NoResp)
          => /\ Cardinality({i \in 1..Len(mission_submissions') :
                                mission_submissions'[i].mission_id = mid}) = 1
             /\ \A i \in 1..Len(mission_submissions') :
                   mission_submissions'[i].mission_id = mid
                       => mission_submissions'[i].tiktok_url = url]_vars

\* the states a mission has only after a submit wrote SUBMITTED
AfterSubmitted == {"SUBMITTED", "VERIFIED", "PAID", "REJECTED"}

\* C13: a mission never has two submission rows, a mission in SUBMITTED,
\* VERIFIED, PAID or REJECTED has exactly one, and a mission's row is never
\* removed (so a mission that was ever SUBMITTED keeps exactly one row).
C13_OneSubmissionPerMission ==
    [][/\ \A mid \in DOMAIN missions' :
             /\ Cardinality(SubmissionsOf(mid)') <= 1
             /\ missions'[mid].state \in AfterSubmitted
                    => Cardinality(SubmissionsOf(mid)') = 1
       /\ \A mid \in DOMAIN missions :
             Cardinality(SubmissionsOf(mid)) <= Cardinality(SubmissionsOf(mid)')]_vars

C13_Witness ==
    /\ Cardinality(SubmissionsOf(1)) = 1
    /\ \E r \in InFlight :
          r.op = "submit" /\ r.pc = "write" /\ r.mid = 1 /\ CopiesIn(r, reqs) = 2

\* the caller of token holds the ARTIST role, mission mid exists and its
\* campaign belongs to the caller (own) or to another artist (~own)
ArtistOn(token, mid, own) ==
    /\ requireRole(token, "ARTIST") = "ok"
    /\ selectMission(mid) # NoMission
    /\ selectCampaign(missions[mid].campaign_id) # NoCampaign
    /\ own <=> selectCampaign(missions[mid].campaign_id).artist_id
                  = users[getAuthUserId(token)].id

\* this step answers an error at once and changes neither the store nor the
\* requests in flight
Refused(status, error) ==
    /\ resp' = Resp(status, error)
    /\ reqs' = reqs
    /\ UNCHANGED <<missions, mission_submissions, campaigns, transfers>>

\* C14: a verify request goes on to its write only when its caller holds the
\* ARTIST role, owns the mission's campaign and read the mission as
\* SUBMITTED, and the write sets VERIFIED; a caller who does not own the
\* campaign is answered 403 whatever the mission's state, an owner who reads
\* another state is answered 400; both leave the mission as it was.
C14_VerifyOwnerOnly ==
    [][/\ reqs' # reqs
          => /\ \A r2 \in BagToSet(reqs') :
                   (r2.op = "verify" /\ Arrives(r2))
                   => /\ users[r2.caller].role = "ARTIST"
                      /\ campaigns[missions[r2.mid].campaign_id].artist_id
                            = users[r2.caller].id
                      /\ missions[r2.mid].state = "SUBMITTED"
                      /\ UNCHANGED missions
             /\ \A r \in InFlight :
                   (r.op = "verify" /\ Steps(r))
                   => /\ resp'.status = 200
                      /\ missions'[r.mid].state = "VERIFIED"
                      /\ missions'[r.mid].creator_id = missions[r.mid].creator_id
       /\ (Taken /\ UNCHANGED missions)
          => \A token \in Tokens, mid \in MissionIds :
                (requireRole(token, "ARTIST") = "ok" /\ Verify(token, mid))
                => /\ ArtistOn(token, mid, FALSE)
                      => Refused(403, "Forbidden: You do not own this campaign")
                   /\ (ArtistOn(token, mid, TRUE) /\ missions[mid].state # "SUBMITTED")
                      => Refused(400, "Mission is not SUBMITTED")]_vars

C14_Witness ==
    /\ resp = Resp(403, "Forbidden: You do not own this campaign")
    /\ missions # << >>
    /\ missions[1].state = "SUBMITTED"
    /\ reqs = EmptyBag

\* C15: the table has the edge SUBMITTED -> REJECTED; a reject request goes on
\* to its write only when its caller holds the ARTIST role, owns the mission's
\* campaign and read the mission as SUBMITTED, and the write stores REJECTED;
\* a caller who does not own the campaign is answered 403 and the mission is
\* as it was.
C15_RejectOwnerOnly ==
    [][/\ canTransition("SUBMITTED", "REJECTED")
       /\ \A r2 \in BagToSet(reqs') :
             (r2.op = "reject" /\ Arrives(r2))
             => /\ users[r2.caller].role = "ARTIST"
                /\ campaigns[missions[r2.mid].campaign_id].artist_id = users[r2.caller].id
                /\ missions[r2.mid].state = "SUBMITTED"
                /\ UNCHANGED missions
       /\ \A r \in InFlight :
             (r.op = "reject" /\ Steps(r))
             => /\ resp'.status = 200
                /\ missions'[r.mid].state = "REJECTED"
       /\ \A token \in Tokens, mid \in MissionIds :
             (ArtistOn(token, mid, FALSE) /\ Reject(token, mid))
             => Refused(403, "Forbidden: You do not own this campaign")]_vars

C15_Witness ==
    /\ missions # << >>
    /\ missions[1].state = "REJECTED"
    /\ resp = Resp(200, Null)

Terminal == {"PAID", "REJECTED"}

\* C16: an accept, submit or verify request that reads a mission as PAID or
\* REJECTED is answered an error at once, and a payout request that read it so
\* is answered an error at its checks; none of them writes a row or calls the
\* processor, so the mission, its submission and the transfers are as before.
C16_TerminalStates ==
    [][/\ \A token \in Tokens, mid \in MissionIds :
             (/\ selectMission(mid) # NoMission
              /\ missions[mid].state \in Terminal
              /\ \/ Accept(token, mid)
                 \/ Verify(token, mid)
                 \/ \E url \in UrlInputs : Submit(token, mid, url))
             => /\ resp'.status \in {400, 401, 403}
                /\ reqs' = reqs
                /\ UNCHANGED <<missions, mission_submissions, campaigns, transfers>>
       /\ \A r \in InFlight :
             (r.op = "payout" /\ r.m.state \in Terminal /\ Steps(r))
             => /\ r.pc = "loadCampaign"
                /\ resp'.status \in {400, 402, 403, 404}
                /\ ~(\E r2 \in BagToSet(reqs') : Arrives(r2))
                /\ UNCHANGED <<missions, mission_submissions, campaigns, transfers>>]_vars

C16_Witness ==
    /\ resp = Resp(400, "Mission is not VERIFIED")
    /\ missions # << >>
    /\ missions[1].state = "PAID"
    /\ Len(transfers) = 1

\* the ids of a table in the order of a sort option
SortedIds(rows, sort) == ids(Ordered(rows, buildOrderBy(sort)))

IsPrefix(a, b) == Len(a) <= Len(b) /\ SubSeq(b, 1, Len(a)) = a

\* C17: on a table no row is inserted into, the ids returned so far by a
\* traversal (no cursor first, then next_cursor of the page before) are the
\* first ids of the table in sort order, and all of them when next_cursor is
\* null: every row once, none omitted, for each sort order and limit.
C17_PaginationComplete ==
    (pg.limit > 0 /\ pg.inserts = 0)
    => /\ IsPrefix(pg.out, SortedIds(pg.snapshot, pg.sort))
       /\ pg.done => pg.out = SortedIds(pg.snapshot, pg.sort)

\* C18: when rows are inserted between the page fetches of a traversal, the
\* ids returned so far that were in the table at its start are the first of
\* those in sort order, and all of them when next_cursor is null.
C18_NoDriftUnderInserts ==
    (pg.limit > 0 /\ pg.inserts > 0)
    => LET old == {r.id : r \in pg.snapshot}
           outOld == SelectSeq(pg.out, LAMBDA id : id \in old)
       IN  /\ IsPrefix(outOld, SortedIds(pg.snapshot, pg.sort))
           /\ pg.done => outOld = SortedIds(pg.snapshot, pg.sort)

\* C19: for every valid cursor c (created_at an ISO text; id an integer or a
\* text), parsePaginationParams of the token encodeCursor(c) has no error and
\* its cursor equals c in both fields.
C19_CursorRoundTrip ==
    \A c \in ValidCursors :
        (pg.last.call = "parse" /\ pg.last.cursorParam = encodeCursor(c))
        => /\ pg.last.error = Null
           /\ pg.last.params.cursor.created_at = c.created_at
           /\ pg.last.params.cursor.id = c.id

C19_Witness ==
    /\ pg.last.call = "parse"
    /\ pg.last.params.cursor.created_at = toISOString(123)
    /\ pg.last.params.cursor.id = JsString(<<97, 34, 98, 92>>)

\* the limit parameters 200, 0, -1 and abc
BadLimitParams == {<<50, 48, 48>>, <<48>>, <<45, 49>>, <<97, 98, 99>>}

\* C20: a list request with a limit outside 1..100 is answered 400 Invalid
\* limit; with a good limit and a sort outside the four orders, 400 Invalid
\* sort; with good limit and sort and a cursor that is no token, 400 Invalid
\* cursor; in each case no select is run.
C20_BadPaginationInput ==
    pg.last.call = "list"
    => /\ pg.last.limitParam \in BadLimitParams
            => /\ pg.last.status = 400 /\ ~pg.last.queried
               /\ pg.last.error = "Invalid limit. Must be an integer between 1 and 100."
       /\ (pg.last.limitParam \notin BadLimitParams /\ pg.last.sortParam = "bogus")
            => /\ pg.last.status = 400 /\ ~pg.last.queried
               /\ pg.last.error
                    = "Invalid sort. Must be one of: created_at_desc, created_at_asc, id_desc, id_asc"
       /\ (/\ pg.last.limitParam \notin BadLimitParams /\ pg.last.sortParam # "bogus"
           /\ pg.last.cursorParam \in BadCursorParams)
            => /\ pg.last.status = 400 /\ ~pg.last.queried
               /\ pg.last.error \in
                    {"Invalid cursor. Cursor must be a valid base64-encoded JSON string.",
                     "Invalid cursor format."}

C20_Witness ==
    /\ pg.last.call = "list"
    /\ pg.last.limitParam = <<50, 48, 48>>
    /\ pg.last.status = 400
    /\ pg.rows # {}

\* a list request that carries limit, cursor or sort
Paginated(call) ==
    call.limitParam # << >> \/ call.cursorParam # << >> \/ call.sortParam # ""

CreatedAtOf(id) == (CHOOSE r \in pg.rows : r.id = id).created_at

\* C21: a list request answered 200 returns the envelope {data, nextCursor}
\* exactly when it carries limit, cursor or sort, with limit 20 and sort
\* created_at_desc when these are omitted; with none of the three (a state
\* filter or not) it returns a bare array of all the rows the filter keeps,
\* newest first.
C21_DualResponseMode ==
    (pg.last.call \in {"list", "missions"} /\ pg.last.status = 200)
    => /\ pg.last.shape = "envelope" <=> Paginated(pg.last)
       /\ pg.last.shape = "array" <=> ~Paginated(pg.last)
       /\ (Paginated(pg.last) /\ pg.last.limitParam = << >>) => pg.last.params.limit = 20
       /\ (Paginated(pg.last) /\ pg.last.sortParam = "")
            => pg.last.params.sort = "created_at_desc"
       /\ ~Paginated(pg.last)
            => /\ pg.last.nextCursor = << >>
               /\ Len(pg.last.data) = Cardinality(WithState(pg.rows, pg.last.stateParam))
               /\ {pg.last.data[i] : i \in DOMAIN pg.last.data}
                    = {r.id : r \in WithState(pg.rows, pg.last.stateParam)}
               /\ \A i, j \in DOMAIN pg.last.data :
                    i < j => CreatedAtOf(pg.last.data[i]) >= CreatedAtOf(pg.last.data[j])

C21_Witness ==
    /\ pg.last.call = "missions"
    /\ pg.last.stateParam = "OPEN"
    /\ ~Paginated(pg.last)
    /\ pg.last.shape = "array"
    /\ Len(pg.last.data) = 2
    /\ Cardinality(pg.rows) = 3

\* C22: a fund request reaches the processor only when its caller holds the
\* ARTIST role and owns the campaign; its step after the processor's answer
\* writes FUNDED and answers 200 when the PaymentIntent is succeeded, and
\* otherwise answers 402 with the PaymentIntent's status and id and leaves
\* the campaign as it was; an artist who does not own the campaign is
\* answered 403 at once.
C22_ConfirmFunding ==
    [][/\ \A r2 \in BagToSet(reqs') :
             (r2.op = "fund" /\ Arrives(r2))
             => /\ users[r2.caller].role = "ARTIST"
                /\ campaigns[r2.mid].artist_id = users[r2.caller].id
                /\ UNCHANGED campaigns
       /\ \A r \in InFlight :
             (r.op = "fund" /\ Steps(r))
             => IF intents[r.mid] = "succeeded"
                  THEN /\ campaigns'[r.mid].payment_status = "FUNDED"
                       /\ resp'.status = 200
                  ELSE /\ resp'.status = 402
                       /\ resp'.msg = intents[r.mid]
                       /\ resp'.payment_intent = campaigns[r.mid].payment_intent_id
                       /\ UNCHANGED campaigns
       /\ \A token \in Tokens, cid \in DOMAIN campaigns :
             (/\ requireRole(token, "ARTIST") = "ok"
              /\ campaigns[cid].artist_id # users[getAuthUserId(token)].id
              /\ Fund(token, cid))
             => Refused(403, "Forbidden: You do not own this campaign")]_vars

C22_Witness ==
    /\ resp.status = 402
    /\ resp.msg = "requires_payment_method"
    /\ resp.payment_intent = "pi_1"
    /\ campaigns[1].payment_status = "PENDING"

\* C23: no step takes the payment_status of a campaign from FUNDED to any
\* other value.
C23_FundingOneWay ==
    [][\A cid \in DOMAIN campaigns :
          campaigns[cid].payment_status = "FUNDED"
          => campaigns'[cid].payment_status = "FUNDED"]_vars

\* a funded campaign on which a later fund request was answered
C23_Witness ==
    /\ campaigns[1].payment_status = "FUNDED"
    /\ resp.status = 400
    /\ resp.error = "Campaign is already funded"

\* the campaigns table with payment_status of cid set to FUNDED, written out
Funded(cid) ==
    [c \in DOMAIN campaigns |->
        IF c = cid
          THEN [artist_id |-> campaigns[c].artist_id,
                budget_cents |-> campaigns[c].budget_cents,
                currency |-> campaigns[c].currency,
                payment_intent_id |-> campaigns[c].payment_intent_id,
                payment_status |-> "FUNDED"]
          ELSE campaigns[c]]

\* C24: a payment_intent.succeeded webhook sets payment_status to FUNDED and
\* changes no other attribute of the campaign and no mission; delivered to a
\* campaign that is already FUNDED it changes nothing; the write of a fund
\* request that saw the PaymentIntent succeeded is the same write, so the two
\* give the same store in either order.
C24_WebhookIdempotent ==
    [][/\ \A cid \in DOMAIN campaigns :
             WebhookPaymentSucceeded(cid)
             => /\ campaigns' = Funded(cid)
                /\ campaigns[cid].payment_status = "FUNDED" => UNCHANGED campaigns
                /\ UNCHANGED <<users, missions, mission_submissions, transfers>>
       /\ \A r \in InFlight :
             (r.op = "fund" /\ Steps(r) /\ intents[r.mid] = "succeeded")
             => /\ campaigns' = Funded(r.mid)
                /\ campaigns[r.mid].payment_status = "FUNDED" => UNCHANGED campaigns
                /\ UNCHANGED <<users, missions, mission_submissions, transfers>>]_vars

\* the webhook has been handled while a fund request that passed its checks
\* on the PENDING campaign waits for the processor
C24_Witness ==
    /\ resp = Received
    /\ campaigns[1].payment_status = "FUNDED"
    /\ \E r \in InFlight : r.op = "fund" /\ r.pc = "retrieve"

\* what requireRole answers when it answers by the roles the account holds
GateOutcome(token, role) ==
    IF getAuthUserId(token) = Null
      THEN Refused(401, "Unauthorized")
    ELSE IF role \notin RolesOf(selectUserByAuthId(getAuthUserId(token)))
      THEN Refused(403, "Forbidden")
    ELSE resp'.status \notin {401, 403}

\* C25: a handler behind requireRole answers 401 when the token is invalid,
\* 403 "Forbidden" when the caller has no account or its roles lack the
\* required role, and passes the gate whenever the caller's roles contain it.
C25_RequireRole ==
    [][\A token \in AuthTokens :
          /\ CreateMission(token, 1, 5000) => GateOutcome(token, "ARTIST")
          /\ Accept(token, 1) => GateOutcome(token, "CREATOR")]_vars

\* the roles a sync request asks for
Requested(r) == {r.roles[i] : i \in 1..Len(r.roles)}

\* C26: a sync that succeeds leaves the account holding every role it held
\* and every role the request named, at least one; no step takes a role or an
\* account away; a sync is answered "User already exists" only when the
\* account holds the roles named, and a sync of roles the account holds
\* writes nothing.
C26_RoleSyncAdditive ==
    [][/\ \A a \in DOMAIN users :
             /\ a \in DOMAIN users'
             /\ RolesOf(users[a]) \subseteq RolesOf(users'[a])
       /\ \A r \in InFlight :
             (r.op \in {"sync", "sync-legacy"} /\ Steps(r) /\ resp'.status \in {200, 201})
             => /\ r.caller \in DOMAIN users'
                /\ Requested(r) \subseteq RolesOf(users'[r.caller])
                /\ RolesOf(users'[r.caller]) # {}
       /\ \A token \in AuthTokens, body \in SyncBodies :
             /\ (SyncUser(token, body) /\ resp'.status = 200)
                => RolesOf([NoUser EXCEPT !.roles = ParsedRoles(body)])
                      \subseteq RolesOf(selectUserByAuthId(getAuthUserId(token)))
             /\ (SyncUserLegacy(token, body) /\ resp'.status = 200)
                => RolesOf([NoUser EXCEPT !.role = body.role])
                      \subseteq RolesOf(selectUserByAuthId(getAuthUserId(token)))
             /\ (/\ SyncUser(token, body)
                 /\ getAuthUserId(token) \in DOMAIN users
                 /\ RolesOf([NoUser EXCEPT !.roles = ParsedRoles(body)])
                       \subseteq RolesOf(users[getAuthUserId(token)]))
                => /\ resp'.msg = "User already exists"
                   /\ reqs' = reqs]_vars

\* one transfer, of 5000 to c1's account, from the processor's acceptance on,
\* and none before
OneTransfer ==
    /\ Len(transfers)
          = (IF \/ selectMission(1).state = "PAID"
                \/ \E r \in InFlight : r.op = "payout" /\ r.pc = "write"
               THEN 1 ELSE 0)
    /\ \A i \in 1..Len(transfers) :
          /\ transfers[i].amount = 5000
          /\ transfers[i].destination = "acct_c1"
          /\ transfers[i].mission_id = 1

NotVerifiedAnswer(r) ==
    PayoutChecks([r EXCEPT !.m = [@ EXCEPT !.state = "SUBMITTED"]], r.c,
                 selectUserByAuthId(r.m.creator_id))

NotOwnerAnswer(r) ==
    PayoutChecks([r EXCEPT !.appId = 0], r.c, selectUserByAuthId(r.m.creator_id))

\* C28: the status of a payout answered after the processor rejected the
\* transfer differs from the status the same request gets for a mission that
\* is not VERIFIED and from the status it gets from a caller who does not own
\* the campaign, and these two differ from each other.
C28_DistinctStatus ==
    [][\A r \in InFlight :
          (r.op = "payout" /\ r.pc = "transfer" /\ Steps(r) /\ stripe_err' # Null)
          => /\ resp'.status # NotVerifiedAnswer(r).status
             /\ resp'.status # NotOwnerAnswer(r).status
             /\ NotVerifiedAnswer(r).status # NotOwnerAnswer(r).status]_vars

\* a request that enters (no request leaves in the step)
Enters(r2) == Arrives(r2) /\ \A r \in InFlight : ~Leaves(r)

\* C29: a payout request that stops after the processor created its transfer
\* and before its update leaves the transfer in place and the mission as it
\* was (the request read it VERIFIED); no step removes or changes a transfer;
\* a step taken while no request is in flight changes no mission; and the
\* only request on a mission that enters while the mission is VERIFIED is a
\* payout request.
C29_NoCompensation ==
    [][/\ \A r \in InFlight :
             (r.op = "payout" /\ r.pc = "write" /\ Crash(r))
             => /\ r.m.state = "VERIFIED"
                /\ r.tid \in 1..Len(transfers')
                /\ transfers'[r.tid].mission_id = r.mid
                /\ missions' = missions
       /\ Len(transfers') >= Len(transfers)
       /\ \A i \in 1..Len(transfers) : transfers'[i] = transfers[i]
       /\ reqs = EmptyBag => \A mid \in DOMAIN missions : missions'[mid] = missions[mid]
       /\ \A r2 \in BagToSet(reqs') :
             (/\ Enters(r2)
              /\ r2.op \in {"accept", "submit", "verify", "reject", "payout"}
              /\ selectMission(r2.mid).state = "VERIFIED")
             => r2.op = "payout"]_vars

\* the payout request has stopped: the mission is VERIFIED, its transfer made
C29_Witness ==
    /\ reqs = EmptyBag
    /\ resp = NoResp
    /\ selectMission(1).state = "VERIFIED"
    /\ Len(transfers) = 1
    /\ transfers[1].mission_id = 1

\* the request is answered with the error, and the step writes no row and
\* makes no call to the processor
FailsClean(r, status, error) ==
    /\ resp' = Resp(status, error)
    /\ reqs' = reqs (-) SetToBag({r})
    /\ UNCHANGED <<users, campaigns, missions, mission_submissions, transfers, stripe_err>>

\* C30: the payout handler answers a caller who does not own the campaign
\* with 403, a mission it read in a state other than VERIFIED with 400
\* "Mission is not VERIFIED" (whether or not the creator has a payout
\* account), and a VERIFIED mission whose creator has no payout account with
\* 400 "Creator has not connected their Stripe account"; in each case no row
\* is written and no transfer is requested.
C30_PayoutFailsClean ==
    [][\A r \in InFlight :
          (/\ r.op = "payout" /\ r.pc = "loadCampaign" /\ Leaves(r)
           /\ ~Crash(r)
           /\ selectCampaign(r.m.campaign_id) # NoCampaign)
          => /\ selectCampaign(r.m.campaign_id).artist_id # r.appId
                => FailsClean(r, 403, "Forbidden: You do not own this campaign")
             /\ (/\ selectCampaign(r.m.campaign_id).artist_id = r.appId
                 /\ selectCampaign(r.m.campaign_id).payment_status = "FUNDED"
                 /\ r.m.state # "VERIFIED")
                => FailsClean(r, 400, "Mission is not VERIFIED")
             /\ (/\ selectCampaign(r.m.campaign_id).artist_id = r.appId
                 /\ selectCampaign(r.m.campaign_id).payment_status = "FUNDED"
                 /\ r.m.state = "VERIFIED"
                 /\ r.m.creator_id # Null
                 /\ selectUserByAuthId(r.m.creator_id) # NoUser
                 /\ selectUserByAuthId(r.m.creator_id).stripe_account_id = Null)
                => FailsClean(r, 400, "Creator has not connected their Stripe account")]_vars

\* a payout on a funded campaign whose mission is ACCEPTED by a creator
\* without payout account: answered by the state check
C30_Witness ==
    /\ resp = Resp(400, "Mission is not VERIFIED")
    /\ campaigns[1].payment_status = "FUNDED"
    /\ selectMission(1).state = "ACCEPTED"
    /\ selectMission(1).creator_id = "c2"
    /\ users["c2"].stripe_account_id = Null
    /\ transfers = << >>

Kept == Matching(WithState(pg.rows, pg.last.stateParam), pg.last.params)

\* the kept rows that come after the last returned row in the sort order
PastLast ==
    IF pg.last.data = << >> THEN Kept
    ELSE {r \in Kept :
            Precedes(CHOOSE q \in pg.rows : q.id = pg.last.data[Len(pg.last.data)],
                     r, buildOrderBy(pg.last.params.sort))}

\* C32: a paginated list request returns the first rows of the sort order
\* that its where clause keeps, at most limit of them; nextCursor is not null
\* exactly when the select of limit + 1 rows returned limit + 1 rows, and is
\* then the token of the created_at (as the Date the handler holds) and id of
\* the last returned row; it is null exactly when no kept row lies past the
\* last returned row.
C32_NextCursor ==
    (pg.last.call \in {"list", "missions"} /\ pg.last.shape = "envelope")
    => /\ Len(pg.last.data) <= pg.last.params.limit
       /\ pg.last.data = Take(SortedIds(Kept, pg.last.params.sort), pg.last.params.limit)
       /\ pg.last.nextCursor # << >> <=> Cardinality(Kept) >= pg.last.params.limit + 1
       /\ pg.last.nextCursor # << >>
            => /\ Len(pg.last.data) = pg.last.params.limit
               /\ decodeCursor(pg.last.nextCursor).error = Null
               /\ decodeCursor(pg.last.nextCursor).cursor.id
                    = JsNumber(pg.last.data[pg.last.params.limit])
               /\ decodeCursor(pg.last.nextCursor).cursor.created_at
                    = toISOString(toDate(CreatedAtOf(pg.last.data[pg.last.params.limit])))
       /\ pg.last.nextCursor = << >> <=> PastLast = {}

\* a page of two rows asked with a cursor, with a third row left
C32_Witness ==
    /\ pg.last.call = "missions"
    /\ pg.last.cursorParam = HeldCursor
    /\ pg.last.shape = "envelope"
    /\ Len(pg.last.data) = 2
    /\ pg.last.nextCursor # << >>

\* the token decodes to a created_at that is the text of a timestamp and to
\* an id that is a text or a number
CursorShaped(token) ==
    /\ decodeCursor(token).error = Null
    /\ DateParse(decodeCursor(token).cursor.created_at) >= 0

\* C33: a request whose limit, sort and state filter are good and whose
\* cursor token does not decode to a timestamp-shaped created_at and an
\* id-shaped id is refused with an Invalid cursor error: no cursor is made of
\* the token and no select is built from it.
C33_InvalidCursorRejected ==
    (/\ pg.last.call \in {"list", "missions", "parse"}
     /\ pg.last.cursorParam # << >>
     /\ pg.last.limitParam \notin BadLimitParams
     /\ pg.last.sortParam # "bogus"
     /\ pg.last.stateParam # "bogus"
     /\ ~CursorShaped(pg.last.cursorParam))
    => /\ pg.last.error \in
            {"Invalid cursor. Cursor must be a valid base64-encoded JSON string.",
             "Invalid cursor format."}
       /\ pg.last.params.cursor = NoCursor
       /\ ~pg.last.queried

\* the processor has reported the PaymentIntent made for campaign cid as
\* succeeded
Succeeded(cid) == cid \in DOMAIN intents /\ intents[cid] = "succeeded"

\* C34: a campaign is FUNDED only if the processor has reported its
\* PaymentIntent as succeeded; payment_status is written only by the fund
\* handler, the payment-intent handler and the payment_intent.succeeded
\* webhook, each time to FUNDED; the fund handler writes it only for a
\* campaign that holds a payment_intent_id.
C34_FundedBySucceededIntent ==
    /\ [](\A cid \in DOMAIN campaigns :
            campaigns[cid].payment_status = "FUNDED" => Succeeded(cid))
    /\ [][\A cid \in DOMAIN campaigns :
            campaigns'[cid].payment_status # campaigns[cid].payment_status
            => /\ campaigns'[cid].payment_status = "FUNDED"
               /\ Succeeded(cid)
               /\ \/ WebhookPaymentSucceeded(cid)
                  \/ \E r \in InFlight :
                       /\ r.mid = cid
                       /\ PaymentIntentRetrieve(r) \/ FundRetrieve(r)
                       /\ campaigns[cid].payment_intent_id # Null]_vars

\* the fund handler has marked the second campaign FUNDED; the first one was
\* left without payment_intent_id by a create request that stopped
C34_Witness ==
    /\ Len(campaigns) = 2
    /\ campaigns[1].payment_intent_id = Null
    /\ campaigns[1].payment_status = "PENDING"
    /\ campaigns[2].payment_status = "FUNDED"
    /\ reqs = EmptyBag
    /\ missions = << >>
    /\ resp = Resp(200, Null)

\* the handlers that update a mission row
MissionWriters == {"accept", "submit", "verify", "reject", "payout"}

\* C35: once a mission is created no step removes it or changes its
\* campaign_id or payout_cents; its row changes only in a step of an accept,
\* submit, verify, reject or payout request for it, which changes state and
\* updated_at and, for accept alone, creator_id; a Submission is written
\* only by a step of a submit request, which leaves the mission rows alone.
C35_MissionFrame ==
    [][/\ missions' # missions
          => /\ Len(missions') >= Len(missions)
             /\ \A mid \in DOMAIN missions :
                   /\ missions'[mid].campaign_id = missions[mid].campaign_id
                   /\ missions'[mid].payout_cents = missions[mid].payout_cents
                   /\ missions'[mid] # missions[mid]
                        => \E r \in InFlight :
                             /\ r.mid = mid /\ r.op \in MissionWriters /\ Steps(r)
                             /\ r.op # "accept"
                                  => missions'[mid].creator_id = missions[mid].creator_id
                             /\ UNCHANGED <<mission_submissions, campaigns, users>>
       /\ mission_submissions' # mission_submissions
          => /\ UNCHANGED missions
             /\ \E r \in InFlight : r.op = "submit" /\ Steps(r)]_vars

\* a mission after the four writes of its workflow
C35_Witness ==
    /\ selectMission(1).state = "PAID"
    /\ selectMission(1).updated_at = 4
    /\ selectMission(1).creator_id = "c1"
    /\ selectMission(1).campaign_id = 1
    /\ selectMission(1).payout_cents = 5000
    /\ mission_submissions # << >>

\* the role each handler passes to requireRole
RequiredRole(op) == IF op \in {"accept", "submit"} THEN "CREATOR" ELSE "ARTIST"

\* the caller of request r passes requireRole for the role of its handler
Gated(r) == r.caller # Null /\ requireRole(r.caller, RequiredRole(r.op)) = "ok"

\* C36: every request past the entry of its handler has passed requireRole
\* for the handler's role, and a step that writes a row of campaigns,
\* missions or mission_submissions or makes the processor create a
\* PaymentIntent or a transfer is a step of such a request, the entry of a
\* create request whose caller passes requireRole, or the processor's
\* webhook: a request with a bad token or without the role writes nothing
\* and reaches no processor call.
C36_GateBeforeWrites ==
    /\ [](\A r \in InFlight : Gated(r))
    /\ [][(\/ <<campaigns, missions, mission_submissions, transfers>>'
                # <<campaigns, missions, mission_submissions, transfers>>
            \/ DOMAIN intents' # DOMAIN intents)
           => \/ \E r \in InFlight : Steps(r)
              \/ \E r2 \in BagToSet(reqs') : Arrives(r2) /\ Gated(r2)
              \/ \E token \in Tokens, cid \in CampaignIds :
                    requireRole(token, "ARTIST") = "ok" /\ CreateMission(token, cid, 5000)
              \/ \E cid \in DOMAIN intents : WebhookPaymentSucceeded(cid)]_vars

\* a request with an invalid token refused on a store that holds campaigns
\* and a mission
C36_Witness ==
    /\ resp = Resp(401, "Unauthorized")
    /\ Len(campaigns) = 2
    /\ missions # << >>
    /\ reqs = EmptyBag

\* the last row of the page of the last list request
LastReturned == CHOOSE q \in pg.rows : q.id = pg.last.data[Len(pg.last.data)]

\* C37: the created_at that the where clause built from nextCursor compares
\* with the stored rows is the stored created_at of the last returned row,
\* and that where clause keeps exactly the rows that come after the last
\* returned row in the sort order.
C37_CursorPosition ==
    (/\ pg.last.call \in {"list", "missions"}
     /\ pg.last.shape = "envelope"
     /\ pg.last.nextCursor # << >>)
    => /\ decodeCursor(pg.last.nextCursor).cursor.id.n = LastReturned.id
       /\ fromDate(DateParse(decodeCursor(pg.last.nextCursor).cursor.created_at))
            = LastReturned.created_at
       /\ \A r \in pg.rows :
            buildCursorWhere(pg.last.params.sort,
                             decodeCursor(pg.last.nextCursor).cursor, r)
            <=> Precedes(LastReturned, r, buildOrderBy(pg.last.params.sort))

\* the payout_cents of the first n missions that belong to campaign cid and
\* are PAID, summed
RECURSIVE PaidOut(_, _)
PaidOut(cid, n) ==
    IF n = 0 THEN 0
    ELSE PaidOut(cid, n - 1)
         + (IF missions[n].campaign_id = cid /\ missions[n].state = "PAID"
              THEN missions[n].payout_cents ELSE 0)

\* C38: for every campaign the payout_cents of its PAID missions sum to at
\* most the campaign's budget_cents.
C38_PayoutsWithinBudget ==
    \A cid \in DOMAIN campaigns :
        PaidOut(cid, Len(missions)) <= campaigns[cid].budget_cents

\* the mission row has been written at most once: every update adds one to
\* updated_at and the first update of a mission is the one of accept, so the
\* row has never held SUBMITTED
NeverSubmitted(mid) ==
    /\ selectMission(mid).state \in {"OPEN", "ACCEPTED"}
    /\ selectMission(mid).updated_at <= 1

\* C39: when no request is in flight (every submit request has returned or
\* has stopped), a mission that has never been SUBMITTED has no row in
\* mission_submissions.
C39_SubmissionOnlyAfterSubmitted ==
    Idle => \A mid \in DOMAIN missions : NeverSubmitted(mid) => SubmissionsOf(mid) = {}

\* the token verifies and no users row has its auth_user_id
NoAccount(token) ==
    getAuthUserId(token) # Null /\ getAuthUserId(token) \notin DOMAIN users

\* the token verifies and its account does not carry the role in the column
\* the lookup reads (users.role)
LacksRole(token, role) ==
    /\ getAuthUserId(token) \in DOMAIN users
    /\ users[getAuthUserId(token)].role # role

====
